---- MODULE Spec2Model ----
(***************************************************************************)
(* Model of lithops' FunctionExecutor (lithops/executors.py) together with *)
(* the job builder (lithops/job/job.py): job construction and dispatch,    *)
(* the future state machine, wait / get_result and the cleanup hand-off.   *)
(***************************************************************************)
EXTENDS Integers, Sequences, FiniteSets, TLC

\* ------------------------------------------------------------------ bounds
MaxJobs == 2        \* job ids one executor hands out in a run
MaxInputs == 2      \* longest iterdata given to map / map_reduce
MaxFutures == 2     \* futures one executor creates in a run
NThreads == 2       \* caller threads of the concurrent specification
MaxTimeoutSteps == 4 \* timeouts range over 5, 10, .. 5 * MaxTimeoutSteps seconds
MaxObjects == 3     \* source objects of an object-processing map
MaxParts == 2       \* partitions of one source object
MaxCalls == 3       \* calls of the job a remote invoker runs

\* -------------------------------------------------------- program constants
MiB == 1048576                  \* 1024**2
FutSerLen == 2000               \* bytes one pickled ResponseFuture adds to reduce data

Items == 1..MaxInputs
Threads == 1..NThreads

\* serialized size in bytes of the data of one call (len of its data_str)
SerLen(x) == IF x = 1 THEN 5000 ELSE x * 524288

\* the remote function of examples/context_manager.py
my_map_function(x) == x + 7

RECURSIVE SumSeq(_)
SumSeq(s) == IF s = <<>> THEN 0 ELSE Head(s) + SumSeq(Tail(s))

RECURSIVE SeqToSet(_)
SeqToSet(s) == IF s = <<>> THEN {} ELSE {Head(s)} \cup SeqToSet(Tail(s))

\* iterdata: every ordering of the items 1..n, n = 1..MaxInputs
InputLists ==
  UNION { { s \in [1..n -> 1..n] : \A a, b \in 1..n : a # b => s[a] # s[b] }
          : n \in 1..MaxInputs }

ChunkSizes == {0, 1, 2}         \* 0 stands for chunksize=None

JobTypes == {"A", "M", "R"}
JobIds == JobTypes \X (0..MaxJobs)

NoResult == 0

VARIABLES
  config,        \* configuration and process environment fixed at construction
  fobj,          \* every ResponseFuture created so far, indexed by identity
  futures,       \* self.futures: identities, in the order they were appended
  cleaned_jobs,  \* self.cleaned_jobs
  total_jobs,    \* self.total_jobs
  last_call,     \* self.last_call
  storage,       \* keys written to the internal storage (put_func / put_data)
  submitted,     \* backend: number of calls dispatched, per job
  handoffs,      \* CLEANER_DIR: number of reclaim requests holding each job key
  ret,           \* what the most recent executor call did and returned
  pc,            \* position of each caller thread inside a call in progress
  loc,           \* locals of each caller thread inside a call in progress
  monitored,     \* job monitor: job keys whose monitor is running
  remote,        \* backend: what each call has left in storage, indexed as fobj
  session,       \* the with block around the executor, and whether its invoker runs
  remote_invoker \* the FaaSRemoteInvoker of a worker process inside run_job

vars == <<config, fobj, futures, cleaned_jobs, total_jobs, last_call, storage,
          submitted, handoffs, ret, pc, loc, monitored, remote, session, remote_invoker>>

\* ------------------------------------------------------------ configuration
Configs ==
  [ data_limit : {0, 1},              \* config['lithops']['data_limit'], MiB; 0 is falsy
    data_cleaner : BOOLEAN,           \* config['lithops']['data_cleaner']
    is_lithops_worker : BOOLEAN ]     \* is_lithops_worker()

\* f.executor_id.count('-'): an executor created inside a worker takes the
\* job key as its session id, so its id holds more than one dash
ExecutorIdDashes(cfg) == IF cfg.is_lithops_worker THEN 3 ELSE 1

\* ----------------------------------------------------------------- futures
Done(f) == f.state = "Done"
Success(f) == f.state = "Success"
Error(f) == f.state = "Error"

NewFuture(job_id, call_id, data) ==
  [ job_id |-> job_id, call_id |-> call_id, data |-> data, state |-> "Created",
    read |-> FALSE, produce_output |-> TRUE, result |-> NoResult ]

ItemData(x) == [ kind |-> "item", item |-> x, futs |-> <<>> ]
FutsData(s) == [ kind |-> "futs", item |-> 0, futs |-> s ]

DataLen(d) == IF d.kind = "item" THEN SerLen(d.item) ELSE FutSerLen * Len(d.futs)

create_job_key(job_id) == job_id

Ids(fo) == [ i \in 1..Len(fo) |-> i ]

\* ResponseFuture.result of a call whose status is known
RECURSIVE RemoteResult(_, _)
RemoteResult(fo, i) ==
  IF fo[i].data.kind = "item"
  THEN my_map_function(fo[i].data.item)
  ELSE SumSeq([ k \in 1..Len(fo[i].data.futs) |-> RemoteResult(fo, fo[i].data.futs[k]) ])

\* ------------------------------------------------------------- job builder
\* variant: the function and the data are uploaded before the size is checked
CreateJobUploadFirst(cfg, job_id, datas, chunksize) ==
  LET data_size_bytes == SumSeq([ k \in 1..Len(datas) |-> DataLen(datas[k]) ])
      data_limit == cfg.data_limit
      exceeded == data_limit # 0 /\ data_size_bytes > data_limit * MiB
  IN  [ exc |-> IF exceeded THEN "DataLimitExceeded" ELSE "none",
        job_id |-> job_id,
        chunksize |-> IF chunksize # 0 THEN chunksize ELSE 1,
        total_calls |-> Len(datas),
        datas |-> datas,
        puts |-> { <<"func", job_id>>, <<"data", job_id>> } ]

\* _create_job: the data-limit check, then the uploads
CreateJob(cfg, job_id, datas, chunksize) ==
  LET data_size_bytes == SumSeq([ k \in 1..Len(datas) |-> DataLen(datas[k]) ])
      data_limit == cfg.data_limit
      exceeded == data_limit # 0 /\ data_size_bytes > data_limit * MiB
  IN  [ exc |-> IF exceeded THEN "DataLimitExceeded" ELSE "none",
        job_id |-> job_id,
        chunksize |-> IF chunksize # 0 THEN chunksize ELSE 1,
        total_calls |-> Len(datas),
        datas |-> datas,
        puts |-> IF exceeded THEN {} ELSE { <<"func", job_id>>, <<"data", job_id>> } ]

\* utils.verify_args followed by _create_job
create_map_job(cfg, job_id, iterdata, chunksize, args_ok) ==
  IF ~args_ok
  THEN [ exc |-> "ArgumentMismatch", job_id |-> job_id, chunksize |-> 1,
         total_calls |-> 0, datas |-> <<>>, puts |-> {} ]
  ELSE CreateJob(cfg, job_id, [ k \in 1..Len(iterdata) |-> ItemData(iterdata[k]) ], chunksize)

\* iterdata = [(map_futures, )], verify_args, _create_job
create_reduce_job(cfg, reduce_job_id, map_futures, args_ok) ==
  IF ~args_ok
  THEN [ exc |-> "ArgumentMismatch", job_id |-> reduce_job_id, chunksize |-> 1,
         total_calls |-> 0, datas |-> <<>>, puts |-> {} ]
  ELSE CreateJob(cfg, reduce_job_id, << FutsData(map_futures) >>, 0)

\* invoker.run_job: one future per call, in call order
RunJobFutures(job) ==
  [ k \in 1..job.total_calls |-> NewFuture(job.job_id, k - 1, job.datas[k]) ]

NewIds(fo, n) == [ k \in 1..n |-> Len(fo) + k ]

\* invoker.run_job: the calls of the job start running on the backend
RunJobRemote(job) == [ k \in 1..job.total_calls |-> "running" ]

\* -------------------------------------------------------------------- Init
NoLoc == [ fs |-> <<>>, jobs_to_clean |-> {}, reduce_ok |-> TRUE, wait_local |-> FALSE,
           job_id |-> << >> ]

NoRet ==
  [ op |-> "none", exc |-> "none", fs |-> <<>>, given |-> FALSE, out |-> <<>>,
    result |-> <<>>, bare |-> FALSE, done |-> <<>>, not_done |-> <<>>,
    events |-> <<>>, stopped |-> {}, handed |-> <<>>, src |-> 0, args |-> <<>> ]

\* no with block has been entered and the executor's invoker runs
NoSession == [ block |-> "out", invoker |-> "running" ]

\* the remote invoker process has not begun run_job
NoRemoteJob ==
  [ pc |-> "idle", total_calls |-> 0, job_monitor |-> "none", queued |-> 0,
    pending_calls_q |-> 0, invoking |-> 0, invoked |-> 0, stopped |-> FALSE ]

Init ==
  /\ config \in Configs
  /\ fobj = <<>>
  /\ futures = <<>>
  /\ cleaned_jobs = {}
  /\ total_jobs = 0
  /\ last_call = "None"
  /\ storage = {}
  /\ submitted = [ j \in JobIds |-> 0 ]
  /\ handoffs = [ j \in JobIds |-> 0 ]
  /\ ret = NoRet
  /\ pc = [ t \in Threads |-> "idle" ]
  /\ loc = [ t \in Threads |-> NoLoc ]
  /\ monitored = {}
  /\ remote = << >>
  /\ session = NoSession
  /\ remote_invoker = NoRemoteJob

\* the caller is between two executor calls: no call is in progress and the
\* value of the previous call has been taken
Idle == ret = NoRet /\ \A t \in Threads : pc[t] = "idle"

\* variant: the counter is not consulted
_create_job_id_fixed(call_type) == << call_type, 0 >>

\* line 156 (line 157, the increment, is in the callers)
_create_job_id(call_type) == << call_type, total_jobs >>

\* ---------------------------------------------------------------- call_async
CallAsync(data, args_ok) ==
  /\ Idle
  /\ total_jobs < MaxJobs
  /\ Len(fobj) + 1 <= MaxFutures
  /\ LET job_id == _create_job_id("A")
         job == create_map_job(config, job_id, << data >>, 0, args_ok)
     IN  /\ total_jobs' = total_jobs + 1
         /\ last_call' = "call_async"
         /\ IF job.exc # "none"
            THEN /\ ret' = [ NoRet EXCEPT !.op = "call_async", !.exc = job.exc,
                                          !.args = << job_id >> ]
                 /\ storage' = storage \cup job.puts
                 /\ UNCHANGED <<fobj, futures, submitted, monitored, remote>>
            ELSE /\ storage' = storage \cup job.puts
                 /\ monitored' = monitored \cup { create_job_key(job_id) }
                 /\ remote' = remote \o RunJobRemote(job)
                 /\ fobj' = fobj \o RunJobFutures(job)
                 /\ futures' = futures \o NewIds(fobj, job.total_calls)
                 /\ submitted' = [ submitted EXCEPT ![job_id] = @ + job.total_calls ]
                 /\ ret' = [ NoRet EXCEPT !.op = "call_async",
                                          !.out = NewIds(fobj, job.total_calls),
                                          !.args = << job_id >> ]
  /\ UNCHANGED <<config, cleaned_jobs, handoffs, pc, loc>>
  /\ UNCHANGED <<session, remote_invoker>>

\* ----------------------------------------------------------------------- map
Map(map_iterdata, chunksize, args_ok) ==
  /\ Idle
  /\ total_jobs < MaxJobs
  /\ Len(fobj) + Len(map_iterdata) <= MaxFutures
  /\ LET job_id == _create_job_id("M")
         job == create_map_job(config, job_id, map_iterdata, chunksize, args_ok)
     IN  /\ total_jobs' = total_jobs + 1
         /\ last_call' = "map"
         /\ IF job.exc # "none"
            THEN /\ ret' = [ NoRet EXCEPT !.op = "map", !.exc = job.exc,
                                          !.args = << job_id, map_iterdata, chunksize >> ]
                 /\ storage' = storage \cup job.puts
                 /\ UNCHANGED <<fobj, futures, submitted, monitored, remote>>
            ELSE /\ storage' = storage \cup job.puts
                 /\ monitored' = monitored \cup { create_job_key(job_id) }
                 /\ remote' = remote \o RunJobRemote(job)
                 /\ fobj' = fobj \o RunJobFutures(job)
                 /\ futures' = futures \o NewIds(fobj, job.total_calls)
                 /\ submitted' = [ submitted EXCEPT ![job_id] = @ + job.total_calls ]
                 /\ ret' = [ NoRet EXCEPT !.op = "map",
                                          !.out = NewIds(fobj, job.total_calls),
                                          !.args = << job_id, map_iterdata, chunksize >> ]
  /\ UNCHANGED <<config, cleaned_jobs, handoffs, pc, loc>>
  /\ UNCHANGED <<session, remote_invoker>>

\* ------------------------------------------------------------- job monitor
\* the backend finishes a dispatched call and the monitor publishes its status
MonitorUpdate(i, outcome) ==
  /\ ret = NoRet
  /\ i \in 1..Len(fobj)
  /\ fobj[i].state = "Created"
  /\ remote[i] = "running"
  /\ create_job_key(fobj[i].job_id) \in monitored
  /\ fobj[i].data.kind = "futs" /\ outcome = "Success" =>
       \A k \in 1..Len(fobj[i].data.futs) :
          fobj[fobj[i].data.futs[k]].state \in {"Success", "Done"}
  /\ fobj' = [ fobj EXCEPT ![i].state = outcome ]
  /\ remote' = [ remote EXCEPT ![i] = outcome ]
  /\ UNCHANGED <<config, futures, cleaned_jobs, total_jobs, last_call, storage,
                 submitted, handoffs, ret, pc, loc, monitored>>
  /\ UNCHANGED <<session, remote_invoker>>

\* ------------------------------------------------------------------- clean
JobKeys(fo, ids) == { create_job_key(fo[ids[k]].job_id) : k \in 1..Len(ids) }

\* variant: a call that succeeded counts as done before its result is fetched
present_jobs_succeeded(cfg, fo, futs, force) ==
  { create_job_key(fo[futs[k]].job_id) :
      k \in { n \in 1..Len(futs) :
                (ExecutorIdDashes(cfg) = 1 /\ (Done(fo[futs[n]]) \/ Success(fo[futs[n]])))
                \/ force } }

\* lines 517-521: the job keys this call may reclaim
present_jobs(cfg, fo, futs, force) ==
  { create_job_key(fo[futs[k]].job_id) :
      k \in { n \in 1..Len(futs) :
                (ExecutorIdDashes(cfg) = 1 /\ Done(fo[futs[n]])) \/ force } }

\* variant: the job keys already handed to the cleaner are not left out
jobs_to_clean_again(cfg, fo, futs, cleaned, force) == present_jobs(cfg, fo, futs, force)

\* line 521
jobs_to_clean(cfg, fo, futs, cleaned, force) == present_jobs(cfg, fo, futs, force) \ cleaned

\* FunctionExecutor.clean, as a function of the executor state st
Clean(cfg, st, fs, cs, spawn_cleaner, force) ==
  IF cs /\ fs = <<>>
  THEN [ cleaned_jobs |-> st.cleaned_jobs, handoffs |-> st.handoffs,
         handed |-> {}, saved_cs |-> TRUE, spawned |-> FALSE ]
  ELSE
    LET futs == IF fs # <<>> THEN fs ELSE st.futures
        jobs == jobs_to_clean(cfg, st.fobj, futs, st.cleaned_jobs, force)
    IN  [ cleaned_jobs |-> st.cleaned_jobs \cup jobs,
          handoffs |-> [ j \in JobIds |->
                           IF j \in jobs THEN st.handoffs[j] + 1 ELSE st.handoffs[j] ],
          handed |-> jobs,
          saved_cs |-> cs,
          spawned |-> (jobs # {} \/ cs) /\ spawn_cleaner ]

\* ------------------------------------------------------------ lithops.wait
ALL_COMPLETED == "ALL_COMPLETED"
ANY_COMPLETED == "ANY_COMPLETED"
ALWAYS == "ALWAYS"
ReturnWhens == {ALL_COMPLETED, ANY_COMPLETED, ALWAYS}

InState(fo, futs, states) == { futs[k] : k \in { n \in 1..Len(futs) : fo[futs[n]].state \in states } }

\* position in futs of the first future whose call raised, 0 if none
FirstError(fo, futs) ==
  LET E == { n \in 1..Len(futs) : Error(fo[futs[n]]) }
  IN  IF E = {} THEN 0 ELSE CHOOSE n \in E : \A m \in E : n <= m

\* the ways the wait of lithops.wait can end on futs: what it raised and the
\* futures whose results it fetched
WaitOutcomes(fo, futs, throw_except, return_when, download_results, timeout) ==
  LET succ == InState(fo, futs, {"Success"})
      pend == InState(fo, futs, {"Created"})
      term == InState(fo, futs, {"Success", "Error", "Done"})
      e == FirstError(fo, futs)
      all == IF download_results THEN succ ELSE {}
      raising ==
        IF throw_except /\ e # 0
        THEN { [ exc |-> "CallException", src |-> futs[e], timed_out |-> FALSE,
                 fetched |-> IF download_results
                             THEN { futs[n] : n \in { m \in 1..(e - 1) : Success(fo[futs[m]]) } }
                             ELSE {} ] }
        ELSE {}
      met == \/ return_when = ALL_COMPLETED /\ pend = {}
             \/ return_when = ANY_COMPLETED /\ term # {}
             \/ return_when = ALWAYS
      returning ==
        IF ~(throw_except /\ e # 0) /\ met
        THEN { [ exc |-> "none", src |-> 0, timed_out |-> FALSE, fetched |-> all ] }
        ELSE {}
      timing_out ==
        IF timeout /\ ~met
        THEN { [ exc |-> "none", src |-> 0, timed_out |-> TRUE, fetched |-> F ] : F \in SUBSET all }
        ELSE {}
  IN  raising \cup returning \cup timing_out

Fetch(fo, fetched) ==
  [ i \in 1..Len(fo) |->
      IF i \in fetched THEN [ fo[i] EXCEPT !.state = "Done", !.result = RemoteResult(fo, i) ]
                       ELSE fo[i] ]

\* ------------------------------------------------------ FunctionExecutor.wait
\* variant: the worker flag is not consulted
CleanerOnIgnoringWorker(cfg) == cfg.data_cleaner

\* lines 406 and 413
CleanerOn(cfg) == cfg.data_cleaner /\ ~cfg.is_lithops_worker

ExecState == [ fobj |-> fobj, futures |-> futures, cleaned_jobs |-> cleaned_jobs,
               handoffs |-> handoffs ]

\* variant: only a future whose result was fetched counts as done
IsDoneOnlyFetched(f, download_results) == Done(f)

\* lines 417-422: the futures wait reports as done
IsDone(f, download_results) ==
  IF download_results THEN Done(f) ELSE Success(f) \/ Done(f)

\* variant: a future counts as not done until its result has been fetched
IsNotDoneUnfetched(f, download_results) == ~Done(f)

\* lines 419 and 422: the futures wait reports as not done
IsNotDone(f, download_results) ==
  IF download_results THEN ~Done(f) ELSE ~Success(f) /\ ~Done(f)

\* FunctionExecutor.wait from state st, the underlying wait ending as w
ExecWait(cfg, st, fs, download_results, w, is_notebook) ==
  LET raised == w.exc # "none"
      fo1 == Fetch(st.fobj, w.fetched)
      \* futures is self.futures itself when fs is falsy: the del empties both
      dropped == raised /\ fs = <<>> /\ is_notebook
      self_futures == IF dropped THEN <<>> ELSE st.futures
      futs == IF fs # <<>> THEN fs ELSE self_futures
      st1 == [ st EXCEPT !.fobj = fo1, !.futures = self_futures ]
      forced == raised /\ CleanerOn(cfg)
      c1 == IF forced THEN Clean(cfg, st1, <<>>, FALSE, TRUE, TRUE)
                      ELSE [ cleaned_jobs |-> st1.cleaned_jobs, handoffs |-> st1.handoffs,
                             handed |-> {}, saved_cs |-> FALSE, spawned |-> FALSE ]
      st2 == [ st1 EXCEPT !.cleaned_jobs = c1.cleaned_jobs, !.handoffs = c1.handoffs ]
      present == JobKeys(fo1, futs)
      c2 == IF CleanerOn(cfg) THEN Clean(cfg, st2, <<>>, FALSE, TRUE, FALSE)
                              ELSE [ cleaned_jobs |-> st2.cleaned_jobs, handoffs |-> st2.handoffs,
                                     handed |-> {}, saved_cs |-> FALSE, spawned |-> FALSE ]
      st4 == [ st2 EXCEPT !.cleaned_jobs = c2.cleaned_jobs, !.handoffs = c2.handoffs ]
      events ==
        (IF raised THEN << "wait raised", "invoker.stop" >> ELSE << >>)
        \o (IF dropped THEN << "del futures" >> ELSE << >>)
        \o (IF forced THEN << "clean force" >> ELSE << >>)
        \o << "job_monitor.stop" >>
        \o (IF CleanerOn(cfg) THEN << "compute_handler.clear", "clean" >> ELSE << >>)
        \o (IF raised THEN << "raise" >> ELSE << "return" >>)
      isdone(i) == IsDone(fo1[i], download_results)
  IN  [ st |-> st4,
        exc |-> w.exc, src |-> w.src,
        futs |-> futs,
        stopped |-> present,
        fs_done |-> IF raised THEN << >> ELSE SelectSeq(futs, LAMBDA i : isdone(i)),
        fs_notdone |-> IF raised THEN << >>
                       ELSE SelectSeq(futs, LAMBDA i : IsNotDone(fo1[i], download_results)),
        handed |-> (IF forced THEN << c1.handed >> ELSE << >>)
                   \o (IF CleanerOn(cfg) THEN << c2.handed >> ELSE << >>),
        events |-> events ]

\* ---------------------------------------------------------------- map_reduce
\* lines 336-360: build and dispatch the reduce job over the map futures
ReducePart(cfg, fo, self_futures, stor, subm, map_job_id, map_futures, reduce_ok) ==
  LET reduce_job_id == << "R", map_job_id[2] >>      \* map_job_id.replace('M', 'R')
      reduce_job == create_reduce_job(cfg, reduce_job_id, map_futures, reduce_ok)
      fo1 == fo \o RunJobFutures(reduce_job)
      reduce_futures == NewIds(fo, reduce_job.total_calls)
  IN  IF reduce_job.exc # "none"
      THEN [ exc |-> reduce_job.exc, fobj |-> fo, futures |-> self_futures,
             storage |-> stor \cup reduce_job.puts, submitted |-> subm, out |-> << >>,
             started |-> {}, calls |-> << >> ]
      ELSE [ exc |-> "none",
             started |-> { create_job_key(reduce_job_id) },
             calls |-> RunJobRemote(reduce_job),
             fobj |-> [ i \in 1..Len(fo1) |->
                          IF i \in SeqToSet(map_futures)
                          THEN [ fo1[i] EXCEPT !.produce_output = FALSE ] ELSE fo1[i] ],
             futures |-> self_futures \o reduce_futures,
             storage |-> stor \cup reduce_job.puts,
             submitted |-> [ subm EXCEPT ![reduce_job_id] = @ + reduce_job.total_calls ],
             out |-> map_futures \o reduce_futures ]

\* lines 300-334, and the rest of the call unless reducer_wait_local is set
MapReduce(map_iterdata, chunksize, map_ok, reduce_ok, reducer_wait_local) ==
  /\ Idle
  /\ total_jobs < MaxJobs
  /\ Len(fobj) + Len(map_iterdata) + 1 <= MaxFutures
  /\ LET map_job_id == _create_job_id("M")
         map_job == create_map_job(config, map_job_id, map_iterdata, chunksize, map_ok)
         map_futures == NewIds(fobj, map_job.total_calls)
         fo1 == fobj \o RunJobFutures(map_job)
         subm1 == [ submitted EXCEPT ![map_job_id] = @ + map_job.total_calls ]
         r == ReducePart(config, fo1, futures \o map_futures, storage \cup map_job.puts,
                         subm1, map_job_id, map_futures, reduce_ok)
         args == << map_job_id, map_iterdata, chunksize, reducer_wait_local >>
     IN  /\ total_jobs' = total_jobs + 1
         /\ last_call' = "map_reduce"
         /\ IF map_job.exc # "none"
            THEN /\ ret' = [ NoRet EXCEPT !.op = "map_reduce", !.exc = map_job.exc,
                                          !.args = args ]
                 /\ storage' = storage \cup map_job.puts
                 /\ UNCHANGED <<fobj, futures, submitted, pc, loc, monitored, remote>>
            ELSE IF reducer_wait_local
            THEN /\ fobj' = fo1
                 /\ futures' = futures \o map_futures
                 /\ storage' = storage \cup map_job.puts
                 /\ submitted' = subm1
                 /\ monitored' = monitored \cup { create_job_key(map_job_id) }
                 /\ remote' = remote \o RunJobRemote(map_job)
                 /\ pc' = [ pc EXCEPT ![1] = "map_reduce" ]
                 /\ loc' = [ loc EXCEPT ![1] = [ NoLoc EXCEPT !.fs = map_futures,
                                                              !.reduce_ok = reduce_ok ] ]
                 /\ UNCHANGED ret
            ELSE /\ fobj' = r.fobj
                 /\ futures' = r.futures
                 /\ storage' = r.storage
                 /\ submitted' = r.submitted
                 /\ monitored' = monitored \cup { create_job_key(map_job_id) } \cup r.started
                 /\ remote' = remote \o RunJobRemote(map_job) \o r.calls
                 /\ ret' = [ NoRet EXCEPT !.op = "map_reduce", !.exc = r.exc,
                                          !.out = r.out, !.args = args ]
                 /\ UNCHANGED <<pc, loc>>
  /\ UNCHANGED <<config, cleaned_jobs, handoffs>>
  /\ UNCHANGED <<session, remote_invoker>>

\* variant: the internal wait returns at once
MapReduceWaitAlways(fo, map_futures) ==
  WaitOutcomes(fo, map_futures, FALSE, ALWAYS, FALSE, FALSE)

\* variant: the internal wait does not raise
MapReduceWaitQuiet(fo, map_futures) ==
  WaitOutcomes(fo, map_futures, FALSE, ALL_COMPLETED, FALSE, FALSE)

\* line 334: self.wait(map_futures), every option of wait at its default
\* (throw_except, ALL_COMPLETED, no download, no timeout)
MapReduceWait(fo, map_futures) ==
  WaitOutcomes(fo, map_futures, TRUE, ALL_COMPLETED, FALSE, FALSE)

\* line 334 onwards with reducer_wait_local: self.wait(map_futures), then the
\* reduce job
MapReduceWaitLocal ==
  /\ pc[1] = "map_reduce"
  /\ ret = NoRet
  /\ \E w \in MapReduceWait(fobj, loc[1].fs) :
       LET map_futures == loc[1].fs
           map_job_id == fobj[map_futures[1]].job_id
           wr == ExecWait(config, ExecState, map_futures, FALSE, w, FALSE)
           r == ReducePart(config, wr.st.fobj, wr.st.futures, storage, submitted,
                           map_job_id, map_futures, loc[1].reduce_ok)
           args == << map_job_id, << >>, 0, TRUE >>
       IN  /\ cleaned_jobs' = wr.st.cleaned_jobs
           /\ handoffs' = wr.st.handoffs
           /\ IF wr.exc # "none"
              THEN /\ fobj' = wr.st.fobj
                   /\ futures' = wr.st.futures
                   /\ ret' = [ NoRet EXCEPT !.op = "map_reduce", !.exc = wr.exc,
                                            !.src = wr.src,
                                            !.events = wr.events, !.handed = wr.handed,
                                            !.args = args ]
                   /\ monitored' = monitored \ wr.stopped
                   /\ UNCHANGED <<storage, submitted, remote>>
              ELSE /\ monitored' = (monitored \ wr.stopped) \cup r.started
                   /\ remote' = remote \o r.calls
                   /\ fobj' = r.fobj
                   /\ futures' = r.futures
                   /\ storage' = r.storage
                   /\ submitted' = r.submitted
                   /\ ret' = [ NoRet EXCEPT !.op = "map_reduce", !.exc = r.exc,
                                            !.out = r.out, !.events = wr.events,
                                            !.handed = wr.handed, !.args = args ]
  /\ pc' = [ pc EXCEPT ![1] = "idle" ]
  /\ loc' = [ loc EXCEPT ![1] = NoLoc ]
  /\ UNCHANGED <<config, total_jobs, last_call>>
  /\ UNCHANGED <<session, remote_invoker>>

\* lists of futures the caller holds: the futures of one job, or the list a
\* map_reduce returned (its map futures followed by its reduce futures)
UserLists ==
  ( { SelectSeq(Ids(fobj), LAMBDA i : fobj[i].job_id = j) : j \in JobIds }
    \cup { SelectSeq(Ids(fobj), LAMBDA i : fobj[i].job_id[2] = n) : n \in 0..MaxJobs } )
  \ { << >> }

FsArgs == UserLists \cup { << >> }       \* << >> is fs=None

\* every way the underlying wait can end, over throw_except and timeout
AnyWaitOutcome(fs, return_when, download_results) ==
  UNION { WaitOutcomes(fobj, IF fs # <<>> THEN fs ELSE futures,
                       te, return_when, download_results, to) : te \in BOOLEAN, to \in BOOLEAN }

NotebookCases(fs, w) == IF fs = <<>> /\ w.exc # "none" THEN BOOLEAN ELSE { FALSE }

\* a wait or get_result call begins: lithops.wait has the monitor track the
\* jobs of the futures it was given
EnterWait(fs) ==
  /\ Idle
  /\ pc' = [ pc EXCEPT ![1] = "wait" ]
  /\ loc' = [ loc EXCEPT ![1] = [ NoLoc EXCEPT !.fs = fs ] ]
  /\ monitored' = monitored \cup JobKeys(fobj, IF fs # << >> THEN fs ELSE futures)
  /\ UNCHANGED <<config, fobj, futures, cleaned_jobs, total_jobs, last_call, storage,
                 submitted, handoffs, ret, remote>>
  /\ UNCHANGED <<session, remote_invoker>>

\* thread 1 is inside wait(fs) and no other call is in progress
InWait(fs) ==
  /\ ret = NoRet
  /\ pc[1] = "wait"
  /\ loc[1].fs = fs
  /\ \A t \in Threads \ {1} : pc[t] = "idle"

Wait(fs, return_when, download_results) ==
  /\ InWait(fs)
  /\ \E w \in AnyWaitOutcome(fs, return_when, download_results) :
     \E nb \in NotebookCases(fs, w) :
       LET r == ExecWait(config, ExecState, fs, download_results, w, nb)
       IN  /\ fobj' = r.st.fobj
           /\ futures' = r.st.futures
           /\ cleaned_jobs' = r.st.cleaned_jobs
           /\ handoffs' = r.st.handoffs
           /\ ret' = [ NoRet EXCEPT !.op = "wait", !.exc = r.exc, !.fs = r.futs,
                                    !.given = (fs # <<>>),
                                    !.done = r.fs_done, !.not_done = r.fs_notdone,
                                    !.events = r.events, !.stopped = r.stopped,
                                    !.handed = r.handed, !.src = r.src,
                                    !.args = << download_results,
                                                IF w.timed_out THEN return_when ELSE "in time",
                                                IF fs # << >> THEN fs ELSE futures >> ]
           /\ monitored' = monitored \ r.stopped
  /\ pc' = [ pc EXCEPT ![1] = "idle" ]
  /\ loc' = [ loc EXCEPT ![1] = NoLoc ]
  /\ UNCHANGED <<config, total_jobs, last_call, storage, submitted, remote>>
  /\ UNCHANGED <<session, remote_invoker>>

\* ------------------------------------------------ FunctionExecutor.get_result
\* variant: the results are collected in reverse order of the futures
DeliverReversed(fo, fs_done, given) ==
  LET out == SelectSeq(fs_done, LAMBDA i : fo[i].produce_output)
      fwd == IF given THEN out ELSE SelectSeq(out, LAMBDA i : ~fo[i].read)
      taken == [ k \in 1..Len(fwd) |-> fwd[Len(fwd) + 1 - k] ]
  IN  [ result |-> [ k \in 1..Len(taken) |-> fo[taken[k]].result ],
        from |-> taken,
        fobj |-> [ i \in 1..Len(fo) |->
                     IF ~given /\ i \in SeqToSet(taken) THEN [ fo[i] EXCEPT !.read = TRUE ]
                                                       ELSE fo[i] ] ]

\* variant: the read flag is not consulted
DeliverIgnoringRead(fo, fs_done, given) ==
  LET taken == SelectSeq(fs_done, LAMBDA i : fo[i].produce_output)
  IN  [ result |-> [ k \in 1..Len(taken) |-> fo[taken[k]].result ],
        from |-> taken,
        fobj |-> [ i \in 1..Len(fo) |->
                     IF ~given /\ i \in SeqToSet(taken) THEN [ fo[i] EXCEPT !.read = TRUE ]
                                                       ELSE fo[i] ] ]

\* variant: the read flag is never set
DeliverNotMarking(fo, fs_done, given) ==
  LET out == SelectSeq(fs_done, LAMBDA i : fo[i].produce_output)
      taken == IF given THEN out ELSE SelectSeq(out, LAMBDA i : ~fo[i].read)
  IN  [ result |-> [ k \in 1..Len(taken) |-> fo[taken[k]].result ],
        from |-> taken,
        fobj |-> fo ]

\* variant: futures that produce no output are delivered too
DeliverAll(fo, fs_done, given) ==
  LET taken == IF given THEN fs_done ELSE SelectSeq(fs_done, LAMBDA i : ~fo[i].read)
  IN  [ result |-> [ k \in 1..Len(taken) |-> fo[taken[k]].result ],
        from |-> taken,
        fobj |-> [ i \in 1..Len(fo) |->
                     IF ~given /\ i \in SeqToSet(taken) THEN [ fo[i] EXCEPT !.read = TRUE ]
                                                       ELSE fo[i] ] ]

\* lines 443-454: the results delivered from fs_done, and the futures marked read
Deliver(fo, fs_done, given) ==
  LET out == SelectSeq(fs_done, LAMBDA i : fo[i].produce_output)
      taken == IF given THEN out ELSE SelectSeq(out, LAMBDA i : ~fo[i].read)
  IN  [ result |-> [ k \in 1..Len(taken) |-> fo[taken[k]].result ],
        from |-> taken,
        fobj |-> [ i \in 1..Len(fo) |->
                     IF ~given /\ i \in SeqToSet(taken) THEN [ fo[i] EXCEPT !.read = TRUE ]
                                                       ELSE fo[i] ] ]

\* lines 459-462
ReturnsBare(result, lc) == Len(result) = 1 /\ lc # "map"

GetResult(fs) ==
  /\ InWait(fs)
  /\ \E w \in AnyWaitOutcome(fs, ALL_COMPLETED, TRUE) :
     \E nb \in NotebookCases(fs, w) :
       LET r == ExecWait(config, ExecState, fs, TRUE, w, nb)
           d == Deliver(r.st.fobj, r.fs_done, fs # <<>>)
       IN  /\ fobj' = IF r.exc = "none" THEN d.fobj ELSE r.st.fobj
           /\ futures' = r.st.futures
           /\ cleaned_jobs' = r.st.cleaned_jobs
           /\ handoffs' = r.st.handoffs
           /\ ret' = [ NoRet EXCEPT !.op = "get_result", !.exc = r.exc, !.fs = r.futs,
                                    !.given = (fs # <<>>),
                                    !.out = IF r.exc = "none" THEN d.from ELSE << >>,
                                    !.result = IF r.exc = "none" THEN d.result ELSE << >>,
                                    !.bare = r.exc = "none" /\ ReturnsBare(d.result, last_call),
                                    !.done = r.fs_done, !.not_done = r.fs_notdone,
                                    !.events = r.events, !.stopped = r.stopped,
                                    !.handed = r.handed, !.src = r.src,
                                    !.args = << TRUE,
                                                IF w.timed_out THEN ALL_COMPLETED ELSE "in time" >> ]
           /\ monitored' = monitored \ r.stopped
  /\ pc' = [ pc EXCEPT ![1] = "idle" ]
  /\ loc' = [ loc EXCEPT ![1] = NoLoc ]
  /\ UNCHANGED <<config, total_jobs, last_call, storage, submitted, remote>>
  /\ UNCHANGED <<session, remote_invoker>>

\* ------------------------------------------------------ FunctionExecutor.clean
\* fs_type is the Python type of an explicit fs: line 518 wraps everything whose
\* type is not list, so a FuturesList (what map returns) becomes a one-element
\* list holding the FuturesList, which has no executor_id
CleanCall(fs, fs_type, cs, spawn_cleaner, force) ==
  /\ Idle
  /\ fs = << >> => fs_type = "list"
  /\ LET c == Clean(config, ExecState, fs, cs, spawn_cleaner, force)
         broken == fs # << >> /\ fs_type = "FuturesList"
     IN  IF broken
         THEN /\ ret' = [ NoRet EXCEPT !.op = "clean", !.exc = "AttributeError",
                                       !.fs = fs, !.given = TRUE,
                                       !.args = << cs, spawn_cleaner, force, FALSE >> ]
              /\ UNCHANGED <<cleaned_jobs, handoffs>>
         ELSE /\ cleaned_jobs' = c.cleaned_jobs
              /\ handoffs' = c.handoffs
              /\ ret' = [ NoRet EXCEPT !.op = "clean", !.fs = fs, !.given = (fs # <<>>),
                                       !.handed = << c.handed >>,
                                       !.args = << cs, spawn_cleaner, force, c.spawned >> ]
  /\ UNCHANGED <<config, fobj, futures, total_jobs, last_call, storage, submitted,
                 pc, loc, monitored, remote>>
  /\ UNCHANGED <<session, remote_invoker>>

\* the caller takes the value (or the exception) of the call that just ended
Return ==
  /\ ret # NoRet
  /\ ret' = NoRet
  /\ UNCHANGED <<config, fobj, futures, cleaned_jobs, total_jobs, last_call, storage,
                 submitted, handoffs, pc, loc, monitored, remote>>
  /\ UNCHANGED <<session, remote_invoker>>

\* ---------------------------------------------------------- specifications
CallData == { 1 }
AscLists == { [ k \in 1..n |-> k ] : n \in 1..MaxInputs }
FsTypes == { "list", "FuturesList" }

\* the job-creating calls, over every input
Submit ==
  \/ \E d \in CallData, ok \in BOOLEAN : CallAsync(d, ok)
  \/ \E it \in InputLists, c \in ChunkSizes, ok \in BOOLEAN : Map(it, c, ok)
  \/ \E it \in InputLists, c \in ChunkSizes, ok \in BOOLEAN, rok \in BOOLEAN, wl \in BOOLEAN :
        MapReduce(it, c, ok, rok, wl)
  \/ MapReduceWaitLocal

\* the job-creating calls, over inputs whose jobs build
SubmitBuilt ==
  \/ \E d \in CallData : CallAsync(d, TRUE)
  \/ \E it \in AscLists : Map(it, 0, TRUE)
  \/ \E it \in AscLists, wl \in BOOLEAN : MapReduce(it, 0, TRUE, TRUE, wl)
  \/ MapReduceWaitLocal

Backend == \E i \in 1..MaxFutures, o \in {"Success", "Error"} : MonitorUpdate(i, o)

\* a caller that submits jobs and fetches results
Next ==
  \/ Submit
  \/ Backend
  \/ \E fs \in FsArgs : EnterWait(fs)
  \/ \E fs \in FsArgs : GetResult(fs)
  \/ Return

Spec == Init /\ [][Next]_vars

InitBuilt == Init /\ config.data_limit = 0

\* a caller that submits jobs and waits on them
NextWait ==
  \/ SubmitBuilt
  \/ Backend
  \/ \E fs \in FsArgs : EnterWait(fs)
  \/ \E fs \in FsArgs, rw \in ReturnWhens, dl \in BOOLEAN : Wait(fs, rw, dl)
  \/ Return

SpecWait == InitBuilt /\ [][NextWait]_vars

\* call_async and map, over inputs whose jobs build
SubmitMaps ==
  \/ \E d \in CallData : CallAsync(d, TRUE)
  \/ \E it \in AscLists : Map(it, 0, TRUE)

\* a caller that submits jobs, waits on them and cleans
NextClean ==
  \/ SubmitMaps
  \/ Backend
  \/ \E fs \in FsArgs : EnterWait(fs)
  \/ \E fs \in FsArgs, rw \in ReturnWhens, dl \in BOOLEAN : Wait(fs, rw, dl)
  \/ \E fs \in FsArgs, ty \in FsTypes, cs \in BOOLEAN, force \in BOOLEAN :
        CleanCall(fs, ty, cs, TRUE, force)
  \/ Return

SpecClean == InitBuilt /\ [][NextClean]_vars

\* a caller that mixes call_async, map and map_reduce and fetches results
NextResult ==
  \/ \E d \in CallData : CallAsync(d, TRUE)
  \/ \E it \in AscLists : Map(it, 0, TRUE)
  \/ \E it \in AscLists : MapReduce(it, 0, TRUE, TRUE, FALSE)
  \/ Backend
  \/ \E fs \in FsArgs : EnterWait(fs)
  \/ \E fs \in FsArgs : GetResult(fs)
  \/ Return

SpecResult == InitBuilt /\ [][NextResult]_vars

\* a caller that submits jobs and cleans, and never calls wait or get_result
NextSubmit ==
  \/ SubmitBuilt
  \/ Backend
  \/ \E fs \in FsArgs, cs \in BOOLEAN, force \in BOOLEAN :
        CleanCall(fs, "list", cs, TRUE, force)
  \/ Return

SpecSubmit == InitBuilt /\ [][NextSubmit]_vars

\* ------------------------------------------------- threads sharing an executor
\* a thread's wait over the executor's futures (return_when ALWAYS, results
\* downloaded), up to the clean call of its finally block
ThreadWait(t) ==
  /\ pc[t] = "idle"
  /\ ret = NoRet
  /\ futures # << >>
  /\ \E w \in WaitOutcomes(fobj, futures, FALSE, ALWAYS, TRUE, FALSE) :
       fobj' = Fetch(fobj, w.fetched)
  /\ monitored' = monitored \ JobKeys(fobj, futures)
  /\ pc' = [ pc EXCEPT ![t] = IF CleanerOn(config) THEN "wait_clean" ELSE "idle" ]
  /\ UNCHANGED <<config, futures, cleaned_jobs, total_jobs, last_call, storage,
                 submitted, handoffs, ret, loc, remote>>
  /\ UNCHANGED <<session, remote_invoker>>

\* lines 517-523 of a thread's clean: jobs_to_clean is computed from the
\* cleaned_jobs the thread sees now
ThreadCleanBegin(t, force) ==
  /\ \/ pc[t] = "idle"
     \/ pc[t] = "wait_clean" /\ ~force
  /\ ret = NoRet
  /\ LET jobs == jobs_to_clean(config, fobj, futures, cleaned_jobs, force)
     IN  /\ pc' = [ pc EXCEPT ![t] = IF jobs # {} THEN "save" ELSE "idle" ]
         /\ loc' = [ loc EXCEPT ![t] = [ NoLoc EXCEPT !.jobs_to_clean = jobs ] ]
  /\ UNCHANGED <<config, fobj, futures, cleaned_jobs, total_jobs, last_call, storage,
                 submitted, handoffs, ret, monitored, remote>>
  /\ UNCHANGED <<session, remote_invoker>>

\* lines 524-529: the thread hands its jobs_to_clean to the cleaner
ThreadCleanSave(t) ==
  /\ pc[t] = "save"
  /\ handoffs' = [ j \in JobIds |->
                     IF j \in loc[t].jobs_to_clean THEN handoffs[j] + 1 ELSE handoffs[j] ]
  /\ pc' = [ pc EXCEPT ![t] = "update" ]
  /\ UNCHANGED <<config, fobj, futures, cleaned_jobs, total_jobs, last_call, storage,
                 submitted, ret, loc, monitored, remote>>
  /\ UNCHANGED <<session, remote_invoker>>

\* line 530: the thread adds its jobs_to_clean to cleaned_jobs
ThreadCleanUpdate(t) ==
  /\ pc[t] = "update"
  /\ cleaned_jobs' = cleaned_jobs \cup loc[t].jobs_to_clean
  /\ pc' = [ pc EXCEPT ![t] = "idle" ]
  /\ loc' = [ loc EXCEPT ![t] = NoLoc ]
  /\ UNCHANGED <<config, fobj, futures, total_jobs, last_call, storage, submitted,
                 handoffs, ret, monitored, remote>>
  /\ UNCHANGED <<session, remote_invoker>>

\* threads that wait and clean on one executor while jobs are submitted
NextConc ==
  \/ SubmitBuilt
  \/ Backend
  \/ \E t \in Threads : ThreadWait(t)
  \/ \E t \in Threads, force \in BOOLEAN : ThreadCleanBegin(t, force)
  \/ \E t \in Threads : ThreadCleanSave(t)
  \/ \E t \in Threads : ThreadCleanUpdate(t)
  \/ Return

SpecConc == InitBuilt /\ [][NextConc]_vars

\* ------------------------------------------ the executor as context manager
\* variant: the invoker is left running
ExitMonitorOnly(ses) ==
  [ monitored |-> {}, session |-> [ ses EXCEPT !.block = "left" ] ]

\* lines 150-153: __exit__ stops every job monitor, then the invoker
Exit(ses) ==
  [ monitored |-> {}, session |-> [ ses EXCEPT !.block = "left", !.invoker = "stopped" ] ]

\* lines 146-148: the with statement calls __enter__ and enters its block
WithEnter ==
  /\ Idle
  /\ session.block = "out"
  /\ session' = [ session EXCEPT !.block = "in" ]
  /\ UNCHANGED <<config, fobj, futures, cleaned_jobs, total_jobs, last_call, storage,
                 submitted, handoffs, ret, pc, loc, monitored, remote, remote_invoker>>

\* the block is left, at its end or by the exception of the call that just
\* ended: the with statement calls __exit__, and the exception, if any, goes on
\* to the caller since __exit__ returns None
WithExit ==
  /\ session.block = "in"
  /\ \A t \in Threads : pc[t] = "idle"
  /\ ret = NoRet \/ ret.exc # "none"
  /\ monitored' = Exit(session).monitored
  /\ session' = Exit(session).session
  /\ ret' = [ NoRet EXCEPT !.op = "__exit__", !.exc = ret.exc ]
  /\ UNCHANGED <<config, fobj, futures, cleaned_jobs, total_jobs, last_call, storage,
                 submitted, handoffs, pc, loc, remote, remote_invoker>>

\* the program of examples/context_manager.py: inside the block, maps and
\* get_result calls
NextCtx ==
  \/ WithEnter
  \/ session.block = "in" /\ \E it \in AscLists : Map(it, 0, TRUE)
  \/ session.block = "in" /\ Backend
  \/ session.block = "in" /\ EnterWait(<< >>)
  \/ session.block = "in" /\ GetResult(<< >>)
  \/ Return
  \/ WithExit

SpecCtx == InitBuilt /\ [][NextCtx]_vars

\* ------------------------------------- worker/invoker.py: FaaSRemoteInvoker
\* variant: the drain loop is skipped
QueuePendingNever(pending_calls_q) == FALSE

\* variant: the drain loop never ends
QueuePendingAlways(pending_calls_q) == TRUE

\* line 71: the condition of the drain loop, self.pending_calls_q.qsize() > 0
QueuePending(pending_calls_q) == pending_calls_q > 0

\* line 67: run_job(job) begins and creates the monitor of the job
RunJobCreate(n) ==
  /\ remote_invoker.pc = "idle"
  /\ remote_invoker' = [ remote_invoker EXCEPT !.pc = "run_job", !.total_calls = n,
                                               !.job_monitor = "created" ]
  /\ UNCHANGED <<config, fobj, futures, cleaned_jobs, total_jobs, last_call, storage,
                 submitted, handoffs, ret, pc, loc, monitored, remote, session>>

\* line 68: self._run_job(job) invokes the calls the invoker has capacity for
\* and leaves the other q in the pending-calls queue for its workers
RunJobDispatch(q) ==
  /\ remote_invoker.pc = "run_job"
  /\ q <= remote_invoker.total_calls
  /\ remote_invoker' = [ remote_invoker EXCEPT !.pc = "start", !.queued = q,
                                               !.pending_calls_q = q,
                                               !.invoked = remote_invoker.total_calls - q ]
  /\ UNCHANGED <<config, fobj, futures, cleaned_jobs, total_jobs, last_call, storage,
                 submitted, handoffs, ret, pc, loc, monitored, remote, session>>

\* line 69: job_monitor.start()
RunJobStart ==
  /\ remote_invoker.pc = "start"
  /\ remote_invoker' = [ remote_invoker EXCEPT !.pc = "drain", !.job_monitor = "started" ]
  /\ UNCHANGED <<config, fobj, futures, cleaned_jobs, total_jobs, last_call, storage,
                 submitted, handoffs, ret, pc, loc, monitored, remote, session>>

\* lines 71-72: the queue is found non-empty, time.sleep(1)
RunJobSleep ==
  /\ remote_invoker.pc = "drain"
  /\ QueuePending(remote_invoker.pending_calls_q)
  /\ remote_invoker' = [ remote_invoker EXCEPT !.pc = "sleep" ]
  /\ UNCHANGED <<config, fobj, futures, cleaned_jobs, total_jobs, last_call, storage,
                 submitted, handoffs, ret, pc, loc, monitored, remote, session>>

\* line 72: the sleep ends, back to the test of line 71
RunJobWake ==
  /\ remote_invoker.pc = "sleep"
  /\ remote_invoker' = [ remote_invoker EXCEPT !.pc = "drain" ]
  /\ UNCHANGED <<config, fobj, futures, cleaned_jobs, total_jobs, last_call, storage,
                 submitted, handoffs, ret, pc, loc, monitored, remote, session>>

\* line 71: the queue is found empty, the loop ends
RunJobDrained ==
  /\ remote_invoker.pc = "drain"
  /\ ~QueuePending(remote_invoker.pending_calls_q)
  /\ remote_invoker' = [ remote_invoker EXCEPT !.pc = "stop_monitor" ]
  /\ UNCHANGED <<config, fobj, futures, cleaned_jobs, total_jobs, last_call, storage,
                 submitted, handoffs, ret, pc, loc, monitored, remote, session>>

\* line 74: job_monitor.stop()
RunJobStopMonitor ==
  /\ remote_invoker.pc = "stop_monitor"
  /\ remote_invoker' = [ remote_invoker EXCEPT !.pc = "stop", !.job_monitor = "stopped" ]
  /\ UNCHANGED <<config, fobj, futures, cleaned_jobs, total_jobs, last_call, storage,
                 submitted, handoffs, ret, pc, loc, monitored, remote, session>>

\* lines 75-78: self.stop(), the last sleep, and the return
RunJobStop ==
  /\ remote_invoker.pc = "stop"
  /\ remote_invoker' = [ remote_invoker EXCEPT !.pc = "finished", !.stopped = TRUE ]
  /\ UNCHANGED <<config, fobj, futures, cleaned_jobs, total_jobs, last_call, storage,
                 submitted, handoffs, ret, pc, loc, monitored, remote, session>>

\* a worker thread of the invoker takes a call from the pending-calls queue
InvokerTake ==
  /\ ~remote_invoker.stopped
  /\ remote_invoker.pending_calls_q > 0
  /\ remote_invoker' = [ remote_invoker EXCEPT !.pending_calls_q = @ - 1,
                                               !.invoking = @ + 1 ]
  /\ UNCHANGED <<config, fobj, futures, cleaned_jobs, total_jobs, last_call, storage,
                 submitted, handoffs, ret, pc, loc, monitored, remote, session>>

\* a worker thread has invoked the call it took
InvokerInvoke ==
  /\ remote_invoker.invoking > 0
  /\ remote_invoker' = [ remote_invoker EXCEPT !.invoking = @ - 1, !.invoked = @ + 1 ]
  /\ UNCHANGED <<config, fobj, futures, cleaned_jobs, total_jobs, last_call, storage,
                 submitted, handoffs, ret, pc, loc, monitored, remote, session>>

\* function_invoker (lines 32-56) runs inside a worker
InitRemote == InitBuilt /\ config.is_lithops_worker

RemoteInvokerThread ==
  \/ \E n \in 1..MaxCalls : RunJobCreate(n)
  \/ \E q \in 0..MaxCalls : RunJobDispatch(q)
  \/ RunJobStart
  \/ RunJobSleep
  \/ RunJobWake
  \/ RunJobDrained
  \/ RunJobStopMonitor
  \/ RunJobStop

NextRemote ==
  \/ RemoteInvokerThread
  \/ InvokerTake
  \/ InvokerInvoke

SpecRemote == InitRemote /\ [][NextRemote]_vars

\* the thread of run_job and the workers of the invoker are each scheduled
\* again and again
SpecRemoteFair ==
  /\ SpecRemote
  /\ WF_vars(RemoteInvokerThread)
  /\ WF_vars(InvokerTake)
  /\ WF_vars(InvokerInvoke)

\* ------------------------------------------------- cleanup steps that fail
\* the steps of clean that go to the operating system: os.makedirs (line 504),
\* save_data_to_clean (506-508), open of the log file (531), Popen (533)
CleanSteps == { "makedirs", "save", "open", "popen" }

\* FunctionExecutor.clean when the named step raises OSError as soon as the
\* call gets to it; clean has no handler, so the step's exception ends the call
CleanFailing(cfg, st, fs, cs, spawn_cleaner, force, step) ==
  LET Outcome(c) ==
        LET reached == \/ step = "makedirs"
                       \/ step = "save" /\ (c.saved_cs \/ c.handed # {})
                       \/ step \in { "open", "popen" } /\ c.spawned
        IN  IF ~reached
            THEN [ cleaned_jobs |-> c.cleaned_jobs, handoffs |-> c.handoffs,
                   handed |-> c.handed, spawned |-> c.spawned, exc |-> "none" ]
            ELSE IF step \in { "makedirs", "save" }
            \* raised before line 528: nothing was recorded
            THEN [ cleaned_jobs |-> st.cleaned_jobs, handoffs |-> st.handoffs,
                   handed |-> {}, spawned |-> FALSE, exc |-> "OSError" ]
            \* raised after line 528: the jobs are recorded, no cleaner was started
            ELSE [ cleaned_jobs |-> c.cleaned_jobs, handoffs |-> c.handoffs,
                   handed |-> c.handed, spawned |-> FALSE, exc |-> "OSError" ]
  \* c is the course of the call when no step fails
  IN  CHOOSE r \in { Outcome(c) : c \in { Clean(cfg, st, fs, cs, spawn_cleaner, force) } } : TRUE

\* clean(fs, cs, spawn_cleaner, force) with a failing step
CleanStepFails(fs, cs, spawn_cleaner, force, step) ==
  /\ Idle
  /\ LET c == CleanFailing(config, ExecState, fs, cs, spawn_cleaner, force, step)
     IN  /\ cleaned_jobs' = c.cleaned_jobs
         /\ handoffs' = c.handoffs
         /\ ret' = [ NoRet EXCEPT !.op = "clean", !.exc = c.exc, !.fs = fs,
                                  !.given = (fs # <<>>), !.handed = << c.handed >>,
                                  !.args = << cs, spawn_cleaner, force, c.spawned, step >> ]
  /\ UNCHANGED <<config, fobj, futures, total_jobs, last_call, storage, submitted,
                 pc, loc, monitored, remote>>
  /\ UNCHANGED <<session, remote_invoker>>

\* FunctionExecutor.wait (lines 402-424) when the named step of clean fails:
\* an exception of the forced clean leaves the except block in place of e, and
\* an exception of the clean in the finally block replaces whatever the call
\* was about to return or raise
ExecWaitFailing(cfg, st, fs, download_results, w, is_notebook, step) ==
  LET raised == w.exc # "none"
      fo1 == Fetch(st.fobj, w.fetched)
      dropped == raised /\ fs = <<>> /\ is_notebook
      self_futures == IF dropped THEN <<>> ELSE st.futures
      futs == IF fs # <<>> THEN fs ELSE self_futures
      st1 == [ st EXCEPT !.fobj = fo1, !.futures = self_futures ]
      none == [ cleaned_jobs |-> st1.cleaned_jobs, handoffs |-> st1.handoffs,
                handed |-> {}, spawned |-> FALSE, exc |-> "none" ]
      c1 == IF raised /\ CleanerOn(cfg)
            THEN CleanFailing(cfg, st1, <<>>, FALSE, TRUE, TRUE, step) ELSE none
      st2 == [ st1 EXCEPT !.cleaned_jobs = c1.cleaned_jobs, !.handoffs = c1.handoffs ]
      c2 == IF CleanerOn(cfg)
            THEN CleanFailing(cfg, st2, <<>>, FALSE, TRUE, FALSE, step)
            ELSE [ none EXCEPT !.cleaned_jobs = st2.cleaned_jobs, !.handoffs = st2.handoffs ]
      st4 == [ st2 EXCEPT !.cleaned_jobs = c2.cleaned_jobs, !.handoffs = c2.handoffs ]
      exc == IF c2.exc # "none" THEN c2.exc
             ELSE IF c1.exc # "none" THEN c1.exc
             ELSE w.exc
      isdone(i) == IsDone(fo1[i], download_results)
  IN  [ st |-> st4,
        exc |-> exc,
        underlying |-> w.exc,
        futs |-> futs,
        stopped |-> JobKeys(fo1, futs),
        fs_done |-> IF exc # "none" THEN << >> ELSE SelectSeq(futs, LAMBDA i : isdone(i)),
        fs_notdone |-> IF exc # "none" THEN << >> ELSE SelectSeq(futs, LAMBDA i : IsNotDone(fo1[i], download_results)) ]

\* wait(fs, return_when, download_results) with a failing step of clean
WaitCleanupFails(fs, return_when, download_results, step) ==
  /\ InWait(fs)
  /\ \E w \in AnyWaitOutcome(fs, return_when, download_results) :
     \E nb \in NotebookCases(fs, w) :
       LET r == ExecWaitFailing(config, ExecState, fs, download_results, w, nb, step)
       IN  /\ fobj' = r.st.fobj
           /\ futures' = r.st.futures
           /\ cleaned_jobs' = r.st.cleaned_jobs
           /\ handoffs' = r.st.handoffs
           /\ ret' = [ NoRet EXCEPT !.op = "wait", !.exc = r.exc, !.fs = r.futs,
                                    !.given = (fs # <<>>),
                                    !.done = r.fs_done, !.not_done = r.fs_notdone,
                                    !.stopped = r.stopped,
                                    !.args = << download_results, r.underlying, step >> ]
           /\ monitored' = monitored \ r.stopped
  /\ pc' = [ pc EXCEPT ![1] = "idle" ]
  /\ loc' = [ loc EXCEPT ![1] = NoLoc ]
  /\ UNCHANGED <<config, total_jobs, last_call, storage, submitted, remote>>
  /\ UNCHANGED <<session, remote_invoker>>

\* a caller that maps, waits on all its futures and cleans them while a step
\* of the cleanup fails
NextFail ==
  \/ \E it \in AscLists : Map(it, 0, TRUE)
  \/ Backend
  \/ EnterWait(<< >>)
  \/ \E rw \in ReturnWhens, dl \in BOOLEAN, step \in CleanSteps :
        WaitCleanupFails(<< >>, rw, dl, step)
  \/ \E cs \in BOOLEAN, force \in BOOLEAN, step \in CleanSteps :
        CleanStepFails(<< >>, cs, TRUE, force, step)
  \/ Return

SpecFail == InitBuilt /\ [][NextFail]_vars

\* ------------------------------------------------------ job resource budget
SERVERLESS == "serverless"
STANDALONE == "standalone"
LOCALHOST == "localhost"
Modes == { SERVERLESS, STANDALONE, LOCALHOST }

ServerlessMargin == 5
StandaloneMargin == 10

TimeoutValues == { 5 * k : k \in 1..MaxTimeoutSteps }
TimeoutArgs == {0} \cup TimeoutValues          \* 0 stands for None
MemoryArgs == {0, 128}                         \* 0 stands for None

\* config['lithops'], config[backend] and config['standalone'], as far as the
\* budget of a job reads them
BudgetConfigs ==
  [ chunksize : {1}, execution_timeout : TimeoutValues, runtime_memory : {256},
    runtime_timeout : TimeoutValues, hard_dismantle_timeout : TimeoutValues ]

\* variant: the configured value wins over the explicit one
ResolveConfigFirst(explicit, configured) ==
  IF configured # 0 THEN configured ELSE explicit

\* explicit or configured (Python's or: a falsy explicit value gives way)
Resolve(explicit, configured) ==
  IF explicit # 0 THEN explicit ELSE configured

\* variant: no clamping
ClampTimeoutOff(execution_timeout, limit, margin) == execution_timeout

\* variant: clamping to the limit itself
ClampTimeoutToLimit(execution_timeout, limit, margin) ==
  IF execution_timeout >= limit THEN limit ELSE execution_timeout

\* lines 168-169 and 174-175
ClampTimeout(execution_timeout, limit, margin) ==
  IF execution_timeout >= limit THEN limit - margin ELSE execution_timeout

\* lines 151-179 of _create_job; a field that is None or not set is 0
JobBudget(mode, cfg, chunksize, runtime_memory, execution_timeout) ==
  LET resolved == Resolve(execution_timeout, cfg.execution_timeout)
  IN  [ chunksize |-> Resolve(chunksize, cfg.chunksize),
        execution_timeout |->
          IF mode = SERVERLESS
          THEN ClampTimeout(resolved, cfg.runtime_timeout, ServerlessMargin)
          ELSE IF mode = STANDALONE
          THEN ClampTimeout(resolved, cfg.hard_dismantle_timeout, StandaloneMargin)
          ELSE resolved,
        runtime_memory |->
          IF mode = SERVERLESS THEN Resolve(runtime_memory, cfg.runtime_memory) ELSE 0,
        runtime_timeout |->
          IF mode = SERVERLESS THEN cfg.runtime_timeout
          ELSE IF mode = LOCALHOST THEN execution_timeout
          ELSE 0 ]

\* one job is built; the call's arguments and the job's budget are recorded
BuildJob(mode, cfg, chunksize, runtime_memory, execution_timeout) ==
  /\ Idle
  /\ ret' = [ NoRet EXCEPT
               !.op = "_create_job",
               !.args = << mode, cfg, chunksize, runtime_memory, execution_timeout >>,
               !.result = << JobBudget(mode, cfg, chunksize, runtime_memory,
                                       execution_timeout) >> ]
  /\ UNCHANGED <<config, fobj, futures, cleaned_jobs, total_jobs, last_call, storage,
                 submitted, handoffs, pc, loc, monitored, remote>>
  /\ UNCHANGED <<session, remote_invoker>>

\* ----------------------------------------------- the inputs of a reduce job
\* seq[start:stop] of Python, on a 0-based start and stop
PySlice(seq, start, stop) ==
  LET hi == IF stop < Len(seq) THEN stop ELSE Len(seq)
  IN  [ k \in 1..(IF hi > start THEN hi - start ELSE 0) |-> seq[start + k] ]

\* variant: the offset is not advanced from one object to the next
SlicesFromStart(parts_per_object, map_futures, prev_total_partitons) ==
  [ i \in 1..Len(parts_per_object) |-> PySlice(map_futures, 0, parts_per_object[i]) ]

\* lines 107-111 of create_reduce_job: the loop over map_job.parts_per_object
RECURSIVE Slices(_, _, _)
Slices(parts_per_object, map_futures, prev_total_partitons) ==
  IF parts_per_object = << >> THEN << >>
  ELSE LET total_partitions == Head(parts_per_object)
       IN  << PySlice(map_futures, prev_total_partitons,
                      prev_total_partitons + total_partitions) >>
           \o Slices(Tail(parts_per_object), map_futures,
                     prev_total_partitons + total_partitions)

\* lines 104-111: the iterdata of the reduce job, one entry per reduce call;
\* a map job without parts_per_object (line 89) has parts_per_object << >>
ReduceIterdata(parts_per_object, map_futures, reducer_one_per_object) ==
  IF parts_per_object # << >> /\ reducer_one_per_object
  THEN Slices(parts_per_object, map_futures, 0)
  ELSE << map_futures >>

\* what create_partitions records: for each source object, its number of
\* partitions (<< >> when the map function processes no objects)
PartCounts == UNION { [ 1..n -> 1..MaxParts ] : n \in 0..MaxObjects }

\* a reduce job is built over the futures of a map job of n calls
BuildReduce(parts_per_object, n, reducer_one_per_object) ==
  /\ Idle
  /\ parts_per_object # << >> => n = SumSeq(parts_per_object)
  /\ ret' = [ NoRet EXCEPT
               !.op = "create_reduce_job",
               !.args = << parts_per_object, [ k \in 1..n |-> k ], reducer_one_per_object >>,
               !.result = ReduceIterdata(parts_per_object, [ k \in 1..n |-> k ],
                                         reducer_one_per_object) ]
  /\ UNCHANGED <<config, fobj, futures, cleaned_jobs, total_jobs, last_call, storage,
                 submitted, handoffs, pc, loc, monitored, remote>>
  /\ UNCHANGED <<session, remote_invoker>>

\* ------------------------------------------- how a job's data is passed
\* the serialized data of one call: the bytes str() shows as they are and the
\* bytes it shows as \xNN
DataStrs ==
  { [ printable |-> p, escaped |-> h ] : p \in { 10, 8000, 9000, 10000 }, h \in { 0, 50 } }

\* len(x) of a bytes object
PyLen(x) == x.printable + x.escaped

\* len(str(x)) of a bytes object: b'...' with four characters per escaped byte
StrLen(x) == 3 + x.printable + 4 * x.escaped

FAAS_BACKENDS == { "aws_lambda", "ibm_cf" }

\* utils.agg_data: the data of the calls joined, with the byte range of each
RECURSIVE agg_data(_)
agg_data(data_strs) ==
  IF data_strs = << >> THEN << >>
  ELSE LET before == agg_data(SubSeq(data_strs, 1, Len(data_strs) - 1))
           start  == IF before = << >> THEN 0 ELSE before[Len(before)][2] + 1
       IN  Append(before, << start, start + PyLen(data_strs[Len(data_strs)]) - 1 >>)

\* line 226
upload_data(data_strs, chunksize, backend) ==
  ~( /\ StrLen(data_strs[1]) * chunksize < 8 * 1204
     /\ backend \in FAAS_BACKENDS )

\* lines 249-272: the data fields of the job
JobData(data_strs, chunksize, backend) ==
  IF upload_data(data_strs, chunksize, backend)
  THEN [ data_key |-> "agg_data", data_byte_ranges |-> agg_data(data_strs),
         data_byte_strs |-> << >> ]
  ELSE [ data_key |-> "None", data_byte_ranges |-> << >>, data_byte_strs |-> data_strs ]

\* the data of one job is prepared; job.chunksize is the resolved chunksize
BuildData(data_strs, chunksize, backend) ==
  /\ Idle
  /\ ret' = [ NoRet EXCEPT
               !.op = "job_data",
               !.args = << data_strs, chunksize, backend >>,
               !.result = << JobData(data_strs, chunksize, backend) >> ]
  /\ UNCHANGED <<config, fobj, futures, cleaned_jobs, total_jobs, last_call, storage,
                 submitted, handoffs, pc, loc, monitored, remote>>
  /\ UNCHANGED <<session, remote_invoker>>

\* ------------------------------------------- the submission pool of a job
\* the invoke_pool_threads that reaches _create_job: map passes the caller's
\* argument on (executors.py 255 and 324, job.py 87); call_async passes none
\* to create_map_job, whose parameter then takes its default of 16 (job.py
\* 44); create_reduce_job passes none to _create_job, whose parameter takes
\* its default of 16 (job.py 141)
PoolPassed(call, invoke_pool_threads) ==
  IF call = "map" THEN invoke_pool_threads ELSE 16

\* line 165 of _create_job; in the other modes the field is not set (0)
JobPool(mode, invoke_pool_threads, configured) ==
  IF mode = SERVERLESS
  THEN Resolve(invoke_pool_threads, IF configured # 0 THEN configured ELSE 1)
  ELSE 0

\* one job is built by one of the executor's calls; the caller's argument
\* (0 stands for None), the backend's configured value (0 stands for no such
\* key) and the job's pool size are recorded
BuildPool(call, mode, invoke_pool_threads, configured) ==
  /\ Idle
  /\ call # "map" => invoke_pool_threads = 0
  /\ ret' = [ NoRet EXCEPT
               !.op = "invoke_pool_threads",
               !.args = << call, mode, invoke_pool_threads, configured >>,
               !.result = << JobPool(mode, PoolPassed(call, invoke_pool_threads),
                                     configured) >> ]
  /\ UNCHANGED <<config, fobj, futures, cleaned_jobs, total_jobs, last_call, storage,
                 submitted, handoffs, pc, loc, monitored, remote>>
  /\ UNCHANGED <<session, remote_invoker>>

\* jobs built in every mode, over every configuration and request
NextJob ==
  \/ \E mode \in Modes, cfg \in BudgetConfigs, c \in ChunkSizes, mem \in MemoryArgs,
        et \in TimeoutArgs : BuildJob(mode, cfg, c, mem, et)
  \/ \E ppo \in PartCounts, n \in 1..(MaxObjects * MaxParts), one \in BOOLEAN :
        BuildReduce(ppo, n, one)
  \/ \E call \in { "call_async", "map", "reduce" }, mode \in Modes, ipt \in { 0, 3 },
        configured \in { 0, 2, 4 } :
        BuildPool(call, mode, ipt, configured)
  \/ \E n \in 1..MaxInputs : \E data_strs \in [1..n -> DataStrs] :
        \E c \in ChunkSizes \ { 0 }, backend \in FAAS_BACKENDS \cup { "code_engine" } : BuildData(data_strs, c, backend)
  \/ Return

SpecJob == InitBuilt /\ [][NextJob]_vars

\* ------------------------------------------------- threads submitting jobs
\* line 156 in a thread's map call: the job id is formed from the counter the
\* thread reads now
ThreadCreateJobId(t) ==
  /\ pc[t] = "idle"
  /\ ret = NoRet
  /\ total_jobs < MaxJobs
  /\ Len(fobj) + Cardinality({ u \in Threads : pc[u] # "idle" }) + 1 <= MaxFutures
  /\ pc' = [ pc EXCEPT ![t] = "job_id" ]
  /\ loc' = [ loc EXCEPT ![t] = [ NoLoc EXCEPT !.job_id = _create_job_id("M") ] ]
  /\ UNCHANGED <<config, fobj, futures, cleaned_jobs, total_jobs, last_call, storage,
                 submitted, handoffs, ret, monitored, remote>>
  /\ UNCHANGED <<session, remote_invoker>>

\* line 157 and line 232: the thread increments the counter
ThreadIncrement(t) ==
  /\ pc[t] = "job_id"
  /\ total_jobs' = total_jobs + 1
  /\ last_call' = "map"
  /\ pc' = [ pc EXCEPT ![t] = "build" ]
  /\ UNCHANGED <<config, fobj, futures, cleaned_jobs, storage, submitted, handoffs,
                 ret, loc, monitored, remote>>
  /\ UNCHANGED <<session, remote_invoker>>

\* lines 234-264: the thread builds and dispatches its job over one input
ThreadMap(t, x) ==
  /\ pc[t] = "build"
  /\ LET job_id == loc[t].job_id
         job == create_map_job(config, job_id, << x >>, 0, TRUE)
     IN  /\ storage' = storage \cup job.puts
         /\ monitored' = monitored \cup { create_job_key(job_id) }
         /\ remote' = remote \o RunJobRemote(job)
         /\ fobj' = fobj \o RunJobFutures(job)
         /\ futures' = futures \o NewIds(fobj, job.total_calls)
         /\ submitted' = [ submitted EXCEPT ![job_id] = @ + job.total_calls ]
  /\ pc' = [ pc EXCEPT ![t] = "idle" ]
  /\ loc' = [ loc EXCEPT ![t] = NoLoc ]
  /\ UNCHANGED <<config, cleaned_jobs, total_jobs, last_call, handoffs, ret>>
  /\ UNCHANGED <<session, remote_invoker>>

\* threads that call map on one executor at once
NextIds ==
  \/ \E t \in Threads : ThreadCreateJobId(t)
  \/ \E t \in Threads : ThreadIncrement(t)
  \/ \E t \in Threads, x \in CallData : ThreadMap(t, x)
  \/ Backend

SpecIds == InitBuilt /\ [][NextIds]_vars

\* ------------------------------------------- backend, monitor and cleaner apart
\* the backend finishes a running call and leaves its status and output in
\* storage, whether or not a monitor is watching the job
BackendFinish(i, outcome) ==
  /\ i \in 1..Len(remote)
  /\ remote[i] = "running"
  /\ fobj[i].data.kind = "futs" /\ outcome = "Success" =>
       \A k \in 1..Len(fobj[i].data.futs) : remote[fobj[i].data.futs[k]] = "Success"
  /\ remote' = [ remote EXCEPT ![i] = outcome ]
  /\ UNCHANGED <<config, fobj, futures, cleaned_jobs, total_jobs, last_call, storage,
                 submitted, handoffs, ret, pc, loc, monitored>>
  /\ UNCHANGED <<session, remote_invoker>>

\* the running monitor of a job finds the status of a finished call in storage
\* and marks the call's future
MonitorMark(i) ==
  /\ ret = NoRet
  /\ i \in 1..Len(fobj)
  /\ fobj[i].state = "Created"
  /\ remote[i] \in {"Success", "Error"}
  /\ create_job_key(fobj[i].job_id) \in monitored
  /\ fobj' = [ fobj EXCEPT ![i].state = remote[i] ]
  /\ UNCHANGED <<config, futures, cleaned_jobs, total_jobs, last_call, storage,
                 submitted, handoffs, ret, pc, loc, monitored, remote>>
  /\ UNCHANGED <<session, remote_invoker>>

\* the cleaner process takes the reclaim request of job j and deletes what the
\* job has in storage: its function, its data, and the status and output of
\* the calls that finished so far
Cleaner(j) ==
  /\ handoffs[j] > 0
  /\ << "func", j >> \in storage
  /\ storage' = storage \ { << "func", j >>, << "data", j >> }
  /\ remote' = [ i \in 1..Len(remote) |->
                   IF create_job_key(fobj[i].job_id) = j /\ remote[i] \in {"Success", "Error"}
                   THEN "reclaimed" ELSE remote[i] ]
  /\ UNCHANGED <<config, fobj, futures, cleaned_jobs, total_jobs, last_call,
                 submitted, handoffs, ret, pc, loc, monitored>>
  /\ UNCHANGED <<session, remote_invoker>>

\* a caller that maps and waits, on a backend whose calls all succeed, with
\* the backend, the monitor and the cleaner each taking their own steps
NextMon ==
  \/ \E it \in AscLists : Map(it, 0, TRUE)
  \/ \E i \in 1..MaxFutures : BackendFinish(i, "Success")
  \/ \E i \in 1..MaxFutures : MonitorMark(i)
  \/ \E j \in JobIds : Cleaner(j)
  \/ \E fs \in FsArgs : EnterWait(fs)
  \/ \E fs \in FsArgs, rw \in ReturnWhens, dl \in BOOLEAN : Wait(fs, rw, dl)
  \/ Return

\* the monitor threads are scheduled fairly, and a call that has ended returns
SpecMon ==
  /\ InitBuilt
  /\ [][NextMon]_vars
  /\ \A i \in 1..MaxFutures : SF_vars(MonitorMark(i))
  /\ WF_vars(Return)

\* ------------------------------------------------------------------- claims
\* the call that just ended was a get_result
GotResult == ret.op = "get_result" /\ ret.exc = "none"

\* the futures of the job the most recent call created, that call being a map
LastMapFutures ==
  IF last_call = "map"
  THEN SelectSeq(Ids(fobj), LAMBDA i : fobj[i].job_id = << "M", total_jobs - 1 >>)
  ELSE << >>

\* C1: map returns one future per input, in input order (call i carries input
\* i), and get_result on the futures of a map whose calls all succeeded returns
\* one value per input, the k-th being the function applied to the k-th input,
\* whatever order the calls completed in.
MapResultsInInputOrder ==
  /\ (ret.op = "map" /\ ret.exc = "none" /\ ret.args[3] \in {0, 1})
       => /\ Len(ret.out) = Len(ret.args[2])
          /\ \A k \in 1..Len(ret.out) :
               /\ fobj[ret.out[k]].data = ItemData(ret.args[2][k])
               /\ fobj[ret.out[k]].call_id = k - 1
  /\ (GotResult /\ ret.given /\ ret.args[2] = "in time"
        /\ ret.fs # << >> /\ ret.fs = LastMapFutures
        /\ \A k \in 1..Len(ret.fs) : fobj[ret.fs[k]].state # "Error")
       => /\ Len(ret.result) = Len(ret.fs)
          /\ ~ret.bare
          /\ \A k \in 1..Len(ret.fs) :
               ret.result[k] = my_map_function(fobj[ret.fs[k]].data.item)

\* a map over the inputs 2, 1 has delivered 9, 8
MapResultsInInputOrderSeen ==
  /\ GotResult /\ ret.given /\ ret.fs = LastMapFutures
  /\ Len(ret.fs) = 2
  /\ fobj[ret.fs[1]].data.item = 2 /\ fobj[ret.fs[2]].data.item = 1
  /\ ret.result = << 9, 8 >>

\* a get_result call starts and ends in this step
GetResultStep == ret = NoRet /\ ret'.op = "get_result" /\ ret'.exc = "none"

JobTouched(j, stor, subm) ==
  \/ << "func", j >> \in stor
  \/ << "data", j >> \in stor
  \/ subm[j] # 0

\* C7: a call whose job data exceeds the configured limit raises with nothing
\* uploaded for the job, no call of it handed to the invoker, and the
\* executor's futures as they were.
DataLimitBeforeUpload ==
  [][ (ret = NoRet /\ ret'.exc = "DataLimitExceeded")
        => /\ ~JobTouched(ret'.args[1], storage', submitted')
           /\ storage' = storage
           /\ submitted' = submitted
           /\ futures' = futures
           /\ fobj' = fobj ]_vars

\* a map over two inputs has been refused for its data size
DataLimitBeforeUploadSeen ==
  /\ ret.op = "map" /\ ret.exc = "DataLimitExceeded"
  /\ Len(ret.args[2]) = 2
  /\ config.data_limit # 0

BuildErrors == { "ArgumentMismatch", "DataLimitExceeded" }

\* C8: when a call raises while a job is being built, no task of that call has
\* been dispatched, the map tasks of a map_reduce whose reduce job fails to
\* build included.
BuildErrorDispatchesNothing ==
  (ret.op \in {"call_async", "map", "map_reduce"} /\ ret.exc \in BuildErrors)
    => \A j \in JobIds : j[2] = ret.args[1][2] => submitted[j] = 0

\* the job keys the non-forced clean of the call that just ended handed to the
\* cleaner: those of a clean call without force, or of the clean that ends wait
NonForcedHanded ==
  IF ret.op = "clean" /\ ret.exc = "none" /\ ~ret.args[3]
  THEN ret.handed[1]
  ELSE IF /\ ret.op \in {"wait", "get_result", "map_reduce"}
          /\ \E k \in 1..Len(ret.events) : ret.events[k] = "clean"
       THEN ret.handed[Len(ret.handed)]
       ELSE {}

\* C4: a clean without force, the one that ends wait included, hands a job key
\* to the cleaner only if every future of that job is terminal.
CleanOnlyFinishedJobs ==
  \A j \in NonForcedHanded :
    \A i \in 1..Len(fobj) : create_job_key(fobj[i].job_id) = j => fobj[i].state # "Created"

\* C5: clean never hands to the cleaner a job key that is already in
\* cleaned_jobs, so a job key is handed off once however often clean is called;
\* a clean call that has nothing to hand off and no cloud objects spawns no
\* cleaner.
CleanHandsOffOnce ==
  [][ /\ \A j \in JobIds :
           /\ j \in cleaned_jobs => handoffs'[j] = handoffs[j]
           /\ handoffs'[j] # handoffs[j] => (handoffs'[j] = 1 /\ j \in cleaned_jobs')
      /\ (ret = NoRet /\ ret'.op = "clean" /\ ret'.exc = "none"
            /\ ret'.handed = << {} >> /\ ~ret'.args[1])
           => ~ret'.args[4] ]_vars

\* a forced clean has been repeated on jobs already handed off, and handed
\* nothing
CleanHandsOffOnceSeen ==
  /\ ret.op = "clean" /\ ret.exc = "none" /\ ret.args[3]
  /\ ret.handed = << {} >>
  /\ ~ret.args[4]
  /\ futures # << >>
  /\ \A k \in 1..Len(futures) :
       /\ create_job_key(fobj[futures[k]].job_id) \in cleaned_jobs
       /\ handoffs[create_job_key(fobj[futures[k]].job_id)] = 1

\* C6: with threads cleaning at once, no job key is handed to the cleaner twice.
ConcurrentCleanHandsOffOnce ==
  \A j \in JobIds : handoffs[j] <= 1

\* position of event e in the record of the call that just ended, 0 if absent
EventAt(e) ==
  IF \E k \in 1..Len(ret.events) : ret.events[k] = e
  THEN CHOOSE k \in 1..Len(ret.events) : ret.events[k] = e
  ELSE 0

\* C9: when the underlying wait raises, wait stops the invoker, then (iff the
\* data cleaner is on and the executor is not inside a worker) runs a forced
\* clean, which covers every job of the executor's futures, and then raises the
\* exception the underlying wait raised.
WaitFailureCleansUp ==
  (ret.op = "wait" /\ ret.exc # "none")
    => /\ ret.events[1] = "wait raised"
       /\ ret.events[2] = "invoker.stop"
       /\ ret.events[Len(ret.events)] = "raise"
       /\ EventAt("return") = 0
       /\ (config.data_cleaner /\ ~config.is_lithops_worker)
            => /\ EventAt("clean force") > 2
               /\ Len(ret.handed) = 2
               /\ \A k \in 1..Len(futures) :
                    create_job_key(fobj[futures[k]].job_id) \in cleaned_jobs
       /\ ~(config.data_cleaner /\ ~config.is_lithops_worker)
            => /\ EventAt("clean force") = 0
               /\ ret.handed = << >>
               /\ cleaned_jobs = {}
       /\ ret.exc = "CallException"
       /\ ret.src \in 1..Len(fobj)
       /\ Error(fobj[ret.src])

\* a wait has raised and its forced clean has handed a job to the cleaner
WaitFailureCleansUpSeen ==
  /\ ret.op = "wait" /\ ret.exc = "CallException"
  /\ config.data_cleaner /\ ~config.is_lithops_worker
  /\ ret.handed[1] # {}
  /\ EventAt("invoker.stop") = 2
  /\ EventAt("clean force") = 3

\* the wait that just ended ran into its timeout under ALL_COMPLETED
TimedOutWait == ret.op = "wait" /\ ret.args[2] = ALL_COMPLETED

\* C10: a wait under ALL_COMPLETED that runs into its timeout returns without
\* raising; every future whose call has not completed is in not_done, and every
\* future whose call succeeded (and, when results are downloaded, whose result
\* was fetched) is in done.
WaitTimeoutPartitions ==
  TimedOutWait
    => /\ ret.exc = "none"
       /\ EventAt("return") = Len(ret.events)
       /\ SeqToSet(ret.done) \cup SeqToSet(ret.not_done) = SeqToSet(ret.fs)
       /\ SeqToSet(ret.done) \cap SeqToSet(ret.not_done) = {}
       /\ \A k \in 1..Len(ret.fs) :
            LET f == fobj[ret.fs[k]]
            IN  /\ f.state = "Created" => ret.fs[k] \in SeqToSet(ret.not_done)
                /\ f.state = "Done" => ret.fs[k] \in SeqToSet(ret.done)
                /\ (f.state = "Success" /\ ~ret.args[1]) => ret.fs[k] \in SeqToSet(ret.done)

\* a wait without download has timed out with one call succeeded and one
\* never completed
WaitTimeoutPartitionsSeen ==
  /\ TimedOutWait /\ ~ret.args[1]
  /\ Len(ret.done) = 1 /\ Len(ret.not_done) = 1
  /\ fobj[ret.done[1]].state = "Success"
  /\ fobj[ret.not_done[1]].state = "Created"

\* the backend has finished call i
Finished(i) == Len(remote) >= i /\ remote[i] # "running"

\* the future of call i has left Created
Marked(i) == Len(fobj) >= i /\ fobj[i].state # "Created"

\* thread 1 is inside a wait over future i
WaitingOn(i) ==
  /\ pc[1] = "wait"
  /\ i \in SeqToSet(IF loc[1].fs # << >> THEN loc[1].fs ELSE futures)

\* C11: a call left not done by an earlier wait keeps running, and once the
\* backend has finished it a later wait on its future sees the future leave
\* Created (unless that wait ends first).
LaterWaitObservesFinishedCall ==
  \A i \in 1..MaxFutures :
    (WaitingOn(i) /\ Finished(i)) ~> (Marked(i) \/ pc[1] # "wait")

\* C12: once the backend has finished a dispatched call, the monitor marks its
\* future terminal, whether or not a caller is waiting.
MonitorMarksFinishedCalls ==
  \A i \in 1..MaxFutures :
    (Len(remote) >= i /\ remote[i] \in {"Success", "Error"}) ~> Marked(i)

\* the futures a step has appended to fobj
NewFutures == { i \in 1..Len(fobj') : i > Len(fobj) }

\* C13: in a series of call_async, map and map_reduce calls the job ids are
\* pairwise distinct and their numeric part grows with each call: a newly
\* created job never has the id of an earlier job, its number is above the
\* number of every job of an earlier call, and a job id is numbered by the
\* position of its call.
SequentialJobIdsDistinct ==
  [][ /\ \A i \in NewFutures : \A k \in 1..Len(fobj) :
           /\ fobj'[i].job_id # fobj[k].job_id
           /\ fobj'[i].job_id[2] >= fobj[k].job_id[2]
           /\ fobj'[i].job_id[2] = fobj[k].job_id[2]
                => (pc[1] = "map_reduce" /\ fobj'[i].job_id[1] = "R" /\ fobj[k].job_id[1] = "M")
      /\ \A i, k \in NewFutures :
           fobj'[i].job_id[1] = fobj'[k].job_id[1] => fobj'[i].job_id = fobj'[k].job_id
      /\ (ret = NoRet /\ ret'.op \in {"call_async", "map", "map_reduce"} /\ pc[1] = "idle")
           => (ret'.args[1][2] = total_jobs /\ total_jobs' > total_jobs) ]_vars

\* two calls have created the jobs numbered 0 and 1
SequentialJobIdsDistinctSeen ==
  /\ Len(fobj) = 2
  /\ fobj[1].job_id[2] = 0
  /\ fobj[2].job_id[2] = 1
  /\ total_jobs = 2

\* C14: with threads calling map at once, no two jobs get the same job id: two
\* distinct futures never agree on both job id and call id.
ConcurrentJobIdsDistinct ==
  \A i, k \in 1..Len(fobj) :
    (i # k /\ fobj[i].job_id = fobj[k].job_id) => fobj[i].call_id # fobj[k].call_id

\* a job has just been built: its mode, configuration, requests and budget
Built == ret.op = "_create_job"
BuiltMode == ret.args[1]
BuiltConfig == ret.args[2]
BuiltJob == ret.result[1]

\* the execution timeout asked for: the explicit one, else the configured one
RequestedTimeout ==
  IF ret.args[5] # 0 THEN ret.args[5] ELSE BuiltConfig.execution_timeout

\* the timeout of the runtime the job runs in: the hard dismantle timeout for
\* standalone, the job's runtime timeout otherwise
RuntimeLimit ==
  IF BuiltMode = STANDALONE THEN BuiltConfig.hard_dismantle_timeout
                            ELSE BuiltJob.runtime_timeout

\* C15 as stated: in every mode the execution timeout of a built job is
\* strictly below the job's runtime timeout.
TimeoutBelowRuntimeEveryMode ==
  Built => BuiltJob.execution_timeout < RuntimeLimit

\* C15: the execution timeout of a built job is strictly below the runtime
\* timeout in serverless mode and strictly below the hard dismantle timeout in
\* standalone mode; in localhost mode the job's runtime timeout is the
\* execution timeout that was passed (none if none was), so it is never above
\* the job's execution timeout.
TimeoutBelowRuntime ==
  Built =>
    /\ BuiltMode = SERVERLESS => BuiltJob.execution_timeout < BuiltConfig.runtime_timeout
    /\ BuiltMode = STANDALONE
         => BuiltJob.execution_timeout < BuiltConfig.hard_dismantle_timeout
    /\ BuiltMode = LOCALHOST
         => /\ BuiltJob.runtime_timeout = ret.args[5]
            /\ BuiltJob.runtime_timeout <= BuiltJob.execution_timeout

\* a serverless job was asked to run as long as its runtime lives
TimeoutBelowRuntimeSeen ==
  /\ Built /\ BuiltMode = SERVERLESS
  /\ ret.args[5] = 10 /\ BuiltConfig.runtime_timeout = 10
  /\ BuiltJob.execution_timeout = 5

\* C16: a requested execution timeout at or above the limit becomes the runtime
\* timeout minus 5 (serverless) or the hard dismantle timeout minus 10
\* (standalone); a requested timeout below the limit is kept.
TimeoutClamped ==
  Built =>
    /\ BuiltMode = SERVERLESS =>
         BuiltJob.execution_timeout =
           IF RequestedTimeout >= BuiltConfig.runtime_timeout
           THEN BuiltConfig.runtime_timeout - 5 ELSE RequestedTimeout
    /\ BuiltMode = STANDALONE =>
         BuiltJob.execution_timeout =
           IF RequestedTimeout >= BuiltConfig.hard_dismantle_timeout
           THEN BuiltConfig.hard_dismantle_timeout - 10 ELSE RequestedTimeout

\* a standalone job asked for 20 seconds under a dismantle timeout of 15
TimeoutClampedSeen ==
  /\ Built /\ BuiltMode = STANDALONE
  /\ ret.args[5] = 20 /\ BuiltConfig.hard_dismantle_timeout = 15
  /\ BuiltJob.execution_timeout = 5

\* no clamping applies to the timeout asked for
Unclamped ==
  \/ BuiltMode = LOCALHOST
  \/ BuiltMode = SERVERLESS /\ RequestedTimeout < BuiltConfig.runtime_timeout
  \/ BuiltMode = STANDALONE /\ RequestedTimeout < BuiltConfig.hard_dismantle_timeout

\* chunksize and execution timeout are the explicit value when one is passed
\* and the configured value otherwise
ExplicitFirst ==
  /\ BuiltJob.chunksize = IF ret.args[3] # 0 THEN ret.args[3] ELSE BuiltConfig.chunksize
  /\ Unclamped =>
       BuiltJob.execution_timeout =
         IF ret.args[5] # 0 THEN ret.args[5] ELSE BuiltConfig.execution_timeout

\* C17 as stated: runtime memory, execution timeout and chunksize are the
\* explicit value when one is passed and the configured value otherwise, in
\* every mode.
BudgetExplicitFirstEveryMode ==
  Built =>
    /\ ExplicitFirst
    /\ BuiltJob.runtime_memory =
         IF ret.args[4] # 0 THEN ret.args[4] ELSE BuiltConfig.runtime_memory

\* C17: execution timeout and chunksize are the explicit value when one is
\* passed and the configured value otherwise, in every mode; so is the runtime
\* memory in serverless mode, while a standalone or localhost job records no
\* runtime memory whatever was passed.
BudgetExplicitFirst ==
  Built =>
    /\ ExplicitFirst
    /\ BuiltJob.runtime_memory =
         IF BuiltMode # SERVERLESS THEN 0
         ELSE IF ret.args[4] # 0 THEN ret.args[4] ELSE BuiltConfig.runtime_memory

\* a serverless job was built from explicit values that differ from the
\* configured ones
BudgetExplicitFirstSeen ==
  /\ Built /\ BuiltMode = SERVERLESS
  /\ ret.args[3] = 2 /\ ret.args[4] = 128 /\ ret.args[5] = 5
  /\ BuiltConfig.execution_timeout = 10 /\ BuiltConfig.runtime_timeout = 20
  /\ BuiltJob.chunksize = 2 /\ BuiltJob.runtime_memory = 128
  /\ BuiltJob.execution_timeout = 5

\* a call that is neither wait nor get_result has just returned
SubmitOrClean == { "call_async", "map", "map_reduce", "clean" }

\* the map_reduce that has just returned was called with reducer_wait_local
\* and its map job was dispatched
WaitedLocally ==
  /\ ret.op = "map_reduce" /\ ret.args[4]
  /\ submitted[ret.args[1]] > 0

\* the futures of the map job of the map_reduce that has just returned
ReturnedMapFutures ==
  { i \in 1..Len(fobj) : fobj[i].job_id = ret.args[1] }

\* C18 as stated: map, call_async, map_reduce under every option and clean
\* return without blocking on a remote call: a call in progress that is not
\* wait or get_result can always return.
SubmitNeverBlocks ==
  (pc[1] = "map_reduce" /\ ret = NoRet) => ENABLED MapReduceWaitLocal

\* C18: map, call_async, clean and map_reduce without reducer_wait_local return
\* without any future having completed in the meantime (the futures they create
\* are returned not yet complete, and no older future changes state);
\* map_reduce with reducer_wait_local returns normally only once every call of
\* its map job has completed.
OnlyWaitLocalBlocks ==
  [][ (ret = NoRet /\ ret'.op \in SubmitOrClean) =>
        IF pc[1] = "map_reduce"
        THEN ret'.exc # "CallException" =>
               \A n \in 1..Len(loc[1].fs) : fobj[loc[1].fs[n]].state # "Created"
        ELSE \A i \in 1..Len(fobj') :
               fobj'[i].state = IF i \in 1..Len(fobj) THEN fobj[i].state ELSE "Created" ]_vars

\* a map_reduce with reducer_wait_local has returned its futures, all of its
\* map calls complete
OnlyWaitLocalBlocksSeen ==
  /\ WaitedLocally /\ ret.exc = "none"
  /\ ReturnedMapFutures # {}
  /\ \A i \in ReturnedMapFutures : fobj[i].state = "Success"

\* C19 as stated: call_async, map and map_reduce never raise the exception of
\* a remote call.
SubmitNeverRaisesCallError ==
  ret.op \in { "call_async", "map", "map_reduce" } => ret.exc # "CallException"

\* C19: call_async, map and map_reduce without reducer_wait_local never raise
\* the exception of a remote call; map_reduce with reducer_wait_local raises
\* it exactly when a call of its map job has failed, and the exception is that
\* of a failed map call.
OnlyWaitLocalRaisesCallError ==
  /\ (ret.op \in { "call_async", "map", "map_reduce" } /\ ~WaitedLocally)
       => ret.exc # "CallException"
  /\ WaitedLocally =>
       /\ ret.exc = "CallException"
            <=> \E i \in ReturnedMapFutures : fobj[i].state = "Error"
       /\ ret.exc = "CallException"
            => ret.src \in ReturnedMapFutures /\ fobj[ret.src].state = "Error"

\* a map_reduce with reducer_wait_local has raised the exception of its map
\* call
OnlyWaitLocalRaisesCallErrorSeen ==
  /\ WaitedLocally /\ ret.exc = "CallException"
  /\ fobj[ret.src].job_id[1] = "M" /\ fobj[ret.src].state = "Error"

\* C20: clean never raises to its caller, whichever of its steps fails, and a
\* wait whose cleanup fails still returns its result or raises the exception
\* of the underlying wait.
CleanupFailureAbsorbed ==
  /\ ret.op = "clean" => ret.exc = "none"
  /\ ret.op = "wait" => ret.exc = ret.args[2]

\* C21: a clean called with cloud objects and spawn_cleaner launches the
\* cleaner, whether or not futures are passed or exist; without futures passed
\* it adds no job key to the cleaned set.
CloudObjectsCleanLaunchesCleaner ==
  (ret.op = "clean" /\ ret.exc = "none" /\ ret.args[1] /\ ret.args[2])
    => /\ ret.args[4]
       /\ ~ret.given => ret.handed = << {} >>

\* the futures of job j, in call order
JobFutures(j) == SelectSeq(Ids(fobj), LAMBDA i : fobj[i].job_id = j)

\* fs is the list a map call returned: the futures of a map job that has no
\* reduce job (every map_reduce of SpecResult dispatches its reduce job)
FromMapCall(fs) ==
  /\ fs # << >>
  /\ \E n \in 0..(MaxJobs - 1) :
       /\ fs = JobFutures(<< "M", n >>)
       /\ JobFutures(<< "R", n >>) = << >>

\* C22: get_result on the futures of a map call returns a sequence, never a
\* bare value, whatever was called between the map and the get_result.
MapAlwaysReturnsSequence ==
  (GotResult /\ ret.given /\ FromMapCall(ret.fs)) => ~ret.bare

\* fs is the single future of a call_async or of a reduce job with one reducer
FromSingleResultCall(fs) ==
  /\ Len(fs) = 1
  /\ fobj[fs[1]].job_id[1] \in { "A", "R" }
  /\ fs = JobFutures(fobj[fs[1]].job_id)

\* C23: get_result on the future of a single-result call returns the bare
\* value, whatever was called before the get_result.
SingleResultReturnsBare ==
  (GotResult /\ ret.given /\ FromSingleResultCall(ret.fs) /\ Len(ret.result) = 1)
    => ret.bare

\* future i is a map future that feeds a reduce job
FeedsReduce(i) ==
  /\ fobj[i].job_id[1] = "M"
  /\ JobFutures(<< "R", fobj[i].job_id[2] >>) # << >>

TeardownOnEveryExit ==
  [][ (session.block = "in" /\ session'.block # "in")
        => /\ monitored' = {}
           /\ session'.invoker = "stopped"
           /\ ret'.exc = ret.exc ]_vars

\* the block was left by the exception of a failed call and the teardown ran
TeardownOnEveryExitSeen ==
  /\ ret.op = "__exit__" /\ ret.exc = "CallException"
  /\ session.block = "left" /\ session.invoker = "stopped"
  /\ monitored = {}

\* the sequences of a sequence of sequences, one after the other
RECURSIVE Flatten(_)
Flatten(ss) == IF ss = << >> THEN << >> ELSE Head(ss) \o Flatten(Tail(ss))

\* C26: with reducer_one_per_object and recorded partition counts there is one
\* reduce call per source object, the i-th receiving as many map futures as
\* the i-th object has partitions, the calls' slices being, one after the
\* other, exactly the list of map futures (so they are contiguous, disjoint,
\* in order and complete); otherwise one reduce call receives all map futures.
OneReducerPerObject ==
  ret.op = "create_reduce_job" =>
    IF ret.args[1] # << >> /\ ret.args[3]
    THEN /\ Len(ret.result) = Len(ret.args[1])
         /\ \A i \in 1..Len(ret.result) : Len(ret.result[i]) = ret.args[1][i]
         /\ Flatten(ret.result) = ret.args[2]
    ELSE ret.result = << ret.args[2] >>

\* two objects of two partitions and one partition: two reduce calls
OneReducerPerObjectSeen ==
  /\ ret.op = "create_reduce_job"
  /\ ret.args[1] = << 2, 1 >> /\ ret.args[3]
  /\ ret.result = << << 1, 2 >>, << 3 >> >>

\* the step ends a map_reduce called with reducer_wait_local by dispatching
\* its reduce job
ReduceDispatchedAfterWait ==
  /\ pc[1] = "map_reduce" /\ ret = NoRet
  /\ ret'.op = "map_reduce" /\ ret'.exc = "none"

\* C27: with reducer_wait_local the reduce job is dispatched only once the
\* local wait on the map futures has returned, every map call being complete,
\* never while that wait is still to come; and when the reduce job is
\* dispatched, the map job has not been handed to the cleaner.
ReduceAfterLocalWait ==
  [][ /\ ReduceDispatchedAfterWait =>
           /\ \A n \in 1..Len(loc[1].fs) : fobj[loc[1].fs[n]].state \in { "Success", "Done" }
           /\ submitted[<< "R", ret'.args[1][2] >>] = 0
           /\ submitted'[<< "R", ret'.args[1][2] >>] > 0
           /\ handoffs'[create_job_key(ret'.args[1])] = 0
           /\ create_job_key(ret'.args[1]) \notin cleaned_jobs'
      /\ pc'[1] = "map_reduce" =>
           \A n \in 1..Len(loc'[1].fs) :
             submitted'[<< "R", fobj'[loc'[1].fs[n]].job_id[2] >>] = 0 ]_vars

\* a map_reduce with reducer_wait_local has returned on an executor whose data
\* cleaner is on: the local wait ended with a clean, and the map job is not
\* among the cleaned jobs
ReduceAfterLocalWaitSeen ==
  /\ WaitedLocally /\ ret.exc = "none"
  /\ config.data_cleaner /\ ~config.is_lithops_worker
  /\ EventAt("clean") > 0
  /\ submitted[<< "R", ret.args[1][2] >>] = 1
  /\ create_job_key(ret.args[1]) \notin cleaned_jobs
  /\ \A i \in ReturnedMapFutures : fobj[i].state = "Success"

\* C28: run_job creates the job monitor before it dispatches the job, starts
\* it after the dispatch, and stops the monitor and then the invoker only
\* after it has found the pending-calls queue empty; neither is stopped while
\* calls are pending in the queue.
RunJobStopsAfterDrain ==
  /\ [](remote_invoker.pc = "run_job" => remote_invoker.job_monitor = "created")
  /\ [](remote_invoker.job_monitor = "started" => remote_invoker.pc \notin { "idle", "run_job", "start" })
  /\ []((remote_invoker.job_monitor = "stopped" \/ remote_invoker.stopped)
          => remote_invoker.pending_calls_q = 0)
  /\ [](remote_invoker.stopped => remote_invoker.job_monitor = "stopped")
  /\ [][ /\ (remote_invoker'.job_monitor = "stopped" /\ remote_invoker.job_monitor # "stopped")
              => /\ remote_invoker.pc = "stop_monitor"
                 /\ remote_invoker.job_monitor = "started"
                 /\ remote_invoker.pending_calls_q = 0
         /\ (remote_invoker'.stopped /\ ~remote_invoker.stopped)
              => /\ remote_invoker.job_monitor = "stopped"
                 /\ remote_invoker.pending_calls_q = 0 ]_vars

\* the monitor was stopped, the invoker not yet, after two queued calls had
\* been taken by the workers
RunJobStopsAfterDrainSeen ==
  /\ remote_invoker.pc = "stop"
  /\ remote_invoker.job_monitor = "stopped" /\ ~remote_invoker.stopped
  /\ remote_invoker.queued = 2 /\ remote_invoker.pending_calls_q = 0

\* C29: under fair scheduling of its thread and of the invoker's workers,
\* run_job finds the queue empty, stops the monitor and the invoker and
\* returns; it does not return while the queue is non-empty.
RunJobTerminates ==
  /\ (remote_invoker.pc # "idle")
       ~> (/\ remote_invoker.pc = "finished"
           /\ remote_invoker.job_monitor = "stopped"
           /\ remote_invoker.stopped)
  /\ [](remote_invoker.pc = "finished" => remote_invoker.pending_calls_q = 0)

\* run_job has returned after all the calls of its job had been queued
RunJobTerminatesSeen ==
  /\ remote_invoker.pc = "finished"
  /\ remote_invoker.total_calls = MaxCalls
  /\ remote_invoker.queued = MaxCalls
  /\ remote_invoker.pending_calls_q = 0

\* C30: a job's data is passed inline (no data key, no upload) only when the
\* backend is a FaaS backend and the serialized size of each call's data
\* times chunksize is below 8*1024 bytes; in every other case the aggregated
\* data is uploaded with one byte range per call.
InlineOnlyBelowEightKiB ==
  ret.op = "job_data" =>
    LET data_strs == ret.args[1]
        chunksize == ret.args[2]
        backend   == ret.args[3]
        job       == ret.result[1]
        small     == /\ backend \in FAAS_BACKENDS
                     /\ \A i \in 1..Len(data_strs) : PyLen(data_strs[i]) * chunksize < 8 * 1024
    IN  /\ job.data_key = "None" => small
        /\ ~small => /\ job.data_key = "agg_data"
                     /\ Len(job.data_byte_ranges) = Len(data_strs)
                     /\ job.data_byte_strs = << >>

\* C31: in serverless mode the invoke_pool_threads recorded on every job
\* (of call_async, of map, and the reduce job of map_reduce) is the caller's
\* explicit value when there is one, and otherwise the value configured for
\* the backend when there is one.
PoolThreadsFromBackendConfig ==
  (ret.op = "invoke_pool_threads" /\ ret.args[2] = SERVERLESS) =>
    LET explicit   == ret.args[3]
        configured == ret.args[4]
    IN  /\ explicit # 0 => ret.result[1] = explicit
        /\ (explicit = 0 /\ configured # 0) => ret.result[1] = configured

\* C32 (ret.args[3] is the list the call was to wait for: fs, or the
\* executor's own list as it was when the call began, line 387): on every
\* exit path of wait (return, timeout, exception) the job
\* monitor is stopped for exactly the job keys of the waited futures, and
\* with the data cleaner on outside a worker the compute handler's clear is
\* called for those job keys and a non-forced clean follows.
WaitStopsMonitorOfWaitedJobs ==
  ret.op = "wait" =>
    /\ EventAt("job_monitor.stop") > 0
    /\ ret.stopped = JobKeys(fobj, ret.args[3])
    /\ CleanerOn(config) =>
         /\ EventAt("compute_handler.clear") > EventAt("job_monitor.stop")
         /\ EventAt("clean") = EventAt("compute_handler.clear") + 1

\* C33: for every wait call that returns, with either value of
\* download_results and whatever the futures' states, (done, not_done) is a
\* partition of the waited futures: each waited future is in exactly one of
\* the two lists, no other future is in either, and each list keeps the order
\* of the input list.
WaitPartitionsFutures ==
  (ret.op = "wait" /\ ret.exc = "none") =>
    /\ SeqToSet(ret.done) \cap SeqToSet(ret.not_done) = {}
    /\ ret.done = SelectSeq(ret.args[3], LAMBDA i : i \in SeqToSet(ret.done))
    /\ ret.not_done = SelectSeq(ret.args[3], LAMBDA i : i \notin SeqToSet(ret.done))

\* a wait that did not download results has returned one future in each list
WaitPartitionsFuturesSeen ==
  /\ ret.op = "wait" /\ ret.exc = "none" /\ ~ret.args[1]
  /\ Len(ret.done) = 1 /\ Len(ret.not_done) = 1
  /\ Len(ret.args[3]) = 2

\* C34: when wait returns with download_results false, done contains every
\* waited future that completed (Success, Error or Done) and not_done only
\* futures still pending or running; with download_results true, done
\* contains exactly the futures whose results were fetched (Done).
WaitDoneIsCompleted ==
  (ret.op = "wait" /\ ret.exc = "none") =>
    \A k \in 1..Len(ret.args[3]) :
      LET i == ret.args[3][k]
      IN  IF ret.args[1]
          THEN i \in SeqToSet(ret.done) <=> fobj[i].state = "Done"
          ELSE /\ fobj[i].state \in { "Success", "Error", "Done" } => i \in SeqToSet(ret.done)
               /\ i \in SeqToSet(ret.not_done) => fobj[i].state \notin { "Success", "Error", "Done" }

====
